---- MODULE Spec2Model ----
(***************************************************************************)
(* Content-addressed execution cache of hamilton.caching: the              *)
(* SmartCacheAdapter lifecycle hooks over a SQLiteMetadataStore and a      *)
(* ShelveResultStore, driven by a host engine that evaluates the nodes of  *)
(* a small dataflow in topological order.                                  *)
(*                                                                         *)
(* Python values are pairs <<type, n>>: <<"int", n>> is the integer n and  *)
(* <<"str", n>> the string whose text is the decimal numeral of n.         *)
(* Dictionaries are functions whose DOMAIN is the set of keys present.     *)
(***************************************************************************)
EXTENDS Integers, Sequences, FiniteSets, TLC

\* ------------------------------------------------------------------ bounds
\* graph executions the host engine starts
MaxRuns == 3
\* SmartCacheAdapter objects constructed after the first one
MaxCoordinators == 1
\* calls of the stores' public API made from outside the adapter
MaxExternal == 1
\* calls made when the stores are driven directly, with no adapter
MaxCalls == 4
\* dependency fingerprints given to create_context_key
MaxDeps == 2
\* elements of a list, a set, a dict or an object's __dict__ given to hash_value
MaxElems == 2

\* ------------------------------------------------------------- dictionaries
EmptyDict == [x \in {} |-> 0]

Put(d, k, v) == [x \in (DOMAIN d) \cup {k} |-> IF x = k THEN v ELSE d[x]]

Remove(d, K) == [x \in (DOMAIN d) \ K |-> d[x]]

\* dict.update(other)
Update(d, other) ==
    [x \in (DOMAIN d) \cup (DOMAIN other) |-> IF x \in DOMAIN other THEN other[x] ELSE d[x]]

\* --------------------------------------------------------------- the graph
\* The dataflow of tests/caching/cases.py module_5: A() and B(A, external).
Nodes == {"A", "B"}

InputNodes == {"external"}

\* topological order in which the engine evaluates the nodes
TopoOrder == <<"A", "B">>

\* node_kwargs.keys() of each node, in declaration order
KwargNames(n) == IF n = "B" THEN <<"A", "external">> ELSE << >>

\* the code versions node A's function can have (n.version); B has one
VersionsOfA == {"A_v1", "A_v2"}

NodeVersion(n, verA) ==
    IF n = "A" THEN verA ELSE IF n = "B" THEN "B_v1" ELSE "None"

\* The tags of the graph's nodes (the keys of each node.tags dict): no tags,
\* A tagged cache=<format>, A or B tagged cache=<format> and always_recompute.
NoTags == [n \in Nodes |-> {}]

TagConfigs ==
    {NoTags,
     [NoTags EXCEPT !["A"] = {"cache"}],
     [NoTags EXCEPT !["A"] = {"cache", "always_recompute"}],
     [NoTags EXCEPT !["B"] = {"cache", "always_recompute"}]}

\* values the host passes as the input `external`, and as an override of A
InputValues == {<<"int", 0>>, <<"int", 1>>}

OverrideValues == {<<"int", 7>>}

NoValue == <<"none", 0>>

\* bool(value) of Python
Truthy(v) == ~(v = <<"int", 0>>) /\ ~(v = NoValue)

\* The node functions.  A_v1 is `return 1`, A_v2 is `return "1"`, and B is
\* `return A + external + 3`, which raises TypeError on a str operand.
Callable(n, verA, kw) ==
    IF n = "A"
    THEN [raised |-> "none",
          value |-> IF verA = "A_v1" THEN <<"int", 1>> ELSE <<"str", 1>>]
    ELSE IF kw["A"][1] = "int" /\ kw["external"][1] = "int"
         THEN [raised |-> "none", value |-> <<"int", kw["A"][2] + kw["external"][2] + 3>>]
         ELSE [raised |-> "TypeError", value |-> NoValue]

\* ------------------------------------------------------- fingerprinting.py
\* str(obj): the textual rendering; int n and the str "n" render alike
PyStr(v) == v[2]

\* the digest of the text "<unhashable>", which is no numeral
Unhashable == <<"md5", -2>>

\* hash_value of a primitive (hash_primitive: the digest of str(obj)) and of
\* None (the default implementation on an object with no __dict__)
hash_value(v) == IF v[1] \in {"int", "str"} THEN <<"md5", PyStr(v)>> ELSE Unhashable

Fingerprint(node_name, code, data) ==
    [node_name |-> node_name, code |-> code, data |-> data]

NoFingerprint == Fingerprint("", "", <<"md5", -1>>)

\* sorted() over the str keys used here (Python orders them as listed)
KeyOrder == <<"", "A", "A_v1", "A_v2", "B", "B_v1", "None", "external">>

IsKeyOf(d, k) == k \in DOMAIN d

SortedKeys(d) == SelectSeq(KeyOrder, LAMBDA k : IsKeyOf(d, k))

\* " ".join of the interleaved (key, value) pairs of sorted(d.items()).  A
\* text is held as the sequence of the space-free items it joins; the join of
\* no item is the empty text, which is also the join of one empty item.
encode_str_dict(d) ==
    LET ks == SortedKeys(d)
    IN  IF Len(ks) = 0
        THEN <<"">>
        ELSE [i \in 1..(2 * Len(ks)) |->
                IF i % 2 = 1 THEN ks[(i + 1) \div 2] ELSE d[ks[i \div 2]]]

\* _decode_str_dict: s.split(" ") gives the items back (one empty item for
\* the empty text); d[items[i]] = items[i + 1] for i = 0, 2, ... raises
\* IndexError when the number of items is odd.  A later pair overwrites an
\* earlier one with the same key.
decode_str_dict(s) ==
    IF Len(s) % 2 = 1
    THEN [raised |-> "IndexError", d |-> EmptyDict]
    ELSE LET keys == {s[2 * i - 1] : i \in 1..(Len(s) \div 2)}
             last_of(k) ==
                 LET I == {i \in 1..(Len(s) \div 2) : s[2 * i - 1] = k}
                 IN  s[2 * (CHOOSE i \in I : \A j \in I : j <= i)]
         IN  [raised |-> "none", d |-> [k \in keys |-> last_of(k)]]

\* base64(zlib(...)) is a bijection on strings: a tagged wrapper
compress_string(s) == <<"b64z", s>>

decompress_string(s) == s[2]

encode_dict(hash_map) == compress_string(encode_str_dict(hash_map))

decode_dict(encoded_dict) == decode_str_dict(decompress_string(encoded_dict))

\* caching.py NodeContext(code_version, dependencies_fingerprints).encode()
NodeContext_encode(code_version, dependencies_fingerprints) ==
    encode_dict([c \in {code_version} |-> encode_dict(dependencies_fingerprints)])

\* NodeContext.decode: the code version is the decoded context's first key,
\* the dependencies are decoded from its first value
NodeContext_decode(context_key) ==
    LET context == decode_dict(context_key)
    IN  IF context.raised # "none"
        THEN [raised |-> context.raised, code_version |-> "",
              dependencies_fingerprints |-> EmptyDict]
        ELSE LET code_version == SortedKeys(context.d)[1]
                 deps == decode_dict(context.d[code_version])
             IN  [raised |-> deps.raised, code_version |-> code_version,
                  dependencies_fingerprints |-> deps.d]

NoneSentinel == <<"<none>">>

\* a key that encodes the dependencies in the order they are supplied
create_context_key_in_order(to_code, dependencies) ==
    LET data_dependencies ==
            IF Len(dependencies) > 0
            THEN compress_string([i \in 1..(2 * Len(dependencies)) |->
                    IF i % 2 = 1 THEN dependencies[(i + 1) \div 2].node_name
                                 ELSE dependencies[i \div 2].data])
            ELSE NoneSentinel
    IN  encode_dict([c \in {to_code} |-> data_dependencies])

\* dependencies: a sequence of Fingerprints
create_context_key(to_code, dependencies) ==
    LET names == {dependencies[i].node_name : i \in 1..Len(dependencies)}
        last_of(nm) ==
            LET I == {i \in 1..Len(dependencies) : dependencies[i].node_name = nm}
            IN  dependencies[CHOOSE i \in I : \A j \in I : j <= i].data
        data_dependencies ==
            IF Len(dependencies) > 0
            THEN encode_dict([nm \in names |-> last_of(nm)])
            ELSE NoneSentinel
    IN  encode_dict([c \in {to_code} |-> data_dependencies])

\* hash_value on every shape of value.  Beyond the primitives <<"int", n>> and
\* <<"str", n>> and None, a value is <<"list", elems>>, <<"dict", pairs>> (the
\* <<key, value>> pairs in insertion order), <<"set", elems>> (in iteration
\* order) or <<"object", pairs>>, an object whose __dict__ holds the pairs.
\* `args` are the positional arguments that follow obj in the call.  The
\* result is the digest, or the exception raised.
MAX_DEPTH == 3

Digest(d) == [raised |-> "none", digest |-> d]

Raised(e) == [raised |-> e, digest |-> Unhashable]

\* hashlib.sha224 updated with each part in turn
sha224(parts) == <<"sha224", parts>>

\* the first exception among the results, or the digest of their digests
HashOfParts(results) ==
    IF \E i \in 1..Len(results) : results[i].raised # "none"
    THEN results[CHOOSE i \in 1..Len(results) :
                    /\ results[i].raised # "none"
                    /\ \A j \in 1..(i - 1) : results[j].raised = "none"]
    ELSE Digest(sha224([i \in 1..Len(results) |-> results[i].digest]))

\* sorted(hashes), the digests of primitives ordered as their texts
RECURSIVE SortedHashes(_)
SortedHashes(results) ==
    IF Len(results) = 0
    THEN << >>
    ELSE LET m == CHOOSE i \in 1..Len(results) :
                     \A j \in 1..Len(results) :
                         \/ results[i].digest[2] < results[j].digest[2]
                         \/ results[i].digest[2] = results[j].digest[2] /\ i <= j
             rest == [i \in 1..(Len(results) - 1) |->
                         IF i < m THEN results[i] ELSE results[i + 1]]
         IN  <<results[m]>> \o SortedHashes(rest)

RECURSIVE hash_value_dispatch(_, _)

\* hash_primitive(obj, *args, **kwargs)
hash_primitive(obj, args) == Digest(hash_value(obj))

\* hash_sequence(obj, *, sort=False, **kwargs): takes no positional argument
\* after obj
hash_sequence(obj, args) ==
    IF Len(args) > 0
    THEN Raised("TypeError")
    ELSE HashOfParts([i \in 1..Len(obj[2]) |-> hash_value_dispatch(obj[2][i], << >>)])

\* hash_mapping(obj, *, sort=False, **kwargs): takes no positional argument
\* after obj; with sort left False the entries are hashed in insertion order
hash_mapping(obj, args) ==
    IF Len(args) > 0
    THEN Raised("TypeError")
    ELSE HashOfParts([i \in 1..(2 * Len(obj[2])) |->
                        hash_value_dispatch(obj[2][(i + 1) \div 2][2 - (i % 2)], << >>)])

\* hash_set(obj, *args, **kwargs)
hash_set(obj, args) ==
    LET results == [i \in 1..Len(obj[2]) |-> hash_value_dispatch(obj[2][i], << >>)]
    IN  IF \E i \in 1..Len(results) : results[i].raised # "none"
        THEN HashOfParts(results)
        ELSE HashOfParts(SortedHashes(results))

\* the default implementation hash_value(obj, depth=0, *args, **kwargs):
\* hash_value(obj.__dict__, depth) for an object with a __dict__
hash_default(obj, args) ==
    LET depth == IF Len(args) > 0 THEN args[1] ELSE 0
    IN  IF obj[1] = "object" /\ depth < MAX_DEPTH
        THEN hash_value_dispatch(<<"dict", obj[2]>>, <<depth + 1>>)
        ELSE Digest(Unhashable)

\* functools.singledispatch on the type of obj
hash_value_dispatch(obj, args) ==
    IF obj[1] \in {"int", "str"} THEN hash_primitive(obj, args)
    ELSE IF obj[1] = "list" THEN hash_sequence(obj, args)
    ELSE IF obj[1] = "dict" THEN hash_mapping(obj, args)
    ELSE IF obj[1] = "set" THEN hash_set(obj, args)
    ELSE hash_default(obj, args)

\* ------------------------------------------------- store.py: ShelveResultStore
\* A result store object: its shelve (key -> entry), hits, is_open and what
\* self.cache is ("unset" before the first open, then "open" or "closed").  An
\* entry is the pickled value (kind "inline") or a pickled DataLoader (kind
\* "loader") for the file <directory>/<key>.<format>.
InlineEntry(v) == [kind |-> "inline", value |-> v]

LoaderEntry == [kind |-> "loader", value |-> NoValue]

\* truth value of self.cache.get(key)
EntryTruthy(cache, key) ==
    /\ key \in DOMAIN cache
    /\ (cache[key].kind = "loader" \/ Truthy(cache[key].value))

\* ShelveResultStore.__init__ over the shelve already on disk
NewResultStore(cache) ==
    [cache |-> cache, hits |-> 0, is_open |-> FALSE, shelf |-> "unset"]

ShelveResultStore_open(rs) == [rs EXCEPT !.is_open = TRUE, !.shelf = "open"]

\* ShelveResultStore.close: self.cache.close(); self.is_open = False
ShelveResultStore_close(rs) ==
    IF rs.shelf = "unset"
    THEN [rs |-> rs, raised |-> "AttributeError"]
    ELSE [rs |-> [rs EXCEPT !.is_open = FALSE, !.shelf = "closed"], raised |-> "none"]

ShelveResultStore_size(rs) == Cardinality(DOMAIN rs.cache)

\* search_registry: the format named by the tag has a DataSaver and a
\* DataLoader that apply to int and str values, and none for another type
SaverSupports(value) == value[1] \in {"int", "str"}

\* cache_to_file: pops "cache" from the caller's saver_kwargs, then finds the
\* saver (KeyError when there is none for the value's type), saves the value
\* to the file and returns the loader.  kw is the set of keys of saver_kwargs.
cache_to_file(fs, key, value, kw) ==
    IF SaverSupports(value)
    THEN [files |-> Put(fs, key, value), kw |-> kw \ {"cache"}, raised |-> "none"]
    ELSE [files |-> fs, kw |-> kw \ {"cache"}, raised |-> "KeyError"]

\* ShelveResultStore.set.  has_kw: saver_kwargs is not None; kw: its keys.
\* Gives the store, the files, the (mutated) keys of saver_kwargs and the
\* exception raised.
ShelveResultStore_set(rs, fs, key, value, has_kw, kw) ==
    LET opened == ShelveResultStore_open(rs)
    IN  IF EntryTruthy(opened.cache, key)
        THEN [rs |-> opened, files |-> fs, kw |-> kw, raised |-> "none"]
        ELSE IF has_kw /\ kw # {}
        THEN IF "cache" \notin kw
             THEN \* saver_kwargs["cache"]: KeyError, wrapped
                  [rs |-> opened, files |-> fs, kw |-> kw,
                   raised |-> "MaterializationError"]
             ELSE LET saved == cache_to_file(fs, key, value, kw)
                  IN  IF saved.raised # "none"
                      THEN [rs |-> opened, files |-> saved.files, kw |-> saved.kw,
                            raised |-> "MaterializationError"]
                      ELSE [rs |-> [opened EXCEPT !.cache = Put(@, key, LoaderEntry)],
                            files |-> saved.files, kw |-> saved.kw, raised |-> "none"]
        ELSE [rs |-> [opened EXCEPT !.cache = Put(@, key, InlineEntry(value))],
              files |-> fs, kw |-> kw, raised |-> "none"]

\* a get that returns the pickled object as it is, a loader never loaded
ShelveResultStore_get_unloaded(rs, fs, key) ==
    LET opened == ShelveResultStore_open(rs)
    IN  IF key \notin DOMAIN opened.cache
        THEN [rs |-> opened, value |-> NoValue, raised |-> "ResultRetrievalError"]
        ELSE [rs |-> [opened EXCEPT !.hits = @ + 1],
              value |-> opened.cache[key].value, raised |-> "none"]

\* a get that counts no hit
ShelveResultStore_get_uncounted(rs, fs, key) ==
    LET opened == ShelveResultStore_open(rs)
    IN  IF key \in DOMAIN opened.cache /\ opened.cache[key].kind = "inline"
        THEN [rs |-> opened, value |-> opened.cache[key].value, raised |-> "none"]
        ELSE IF key \in DOMAIN opened.cache /\ key \in DOMAIN fs
        THEN [rs |-> opened, value |-> fs[key], raised |-> "none"]
        ELSE [rs |-> opened, value |-> NoValue, raised |-> "ResultRetrievalError"]

\* ShelveResultStore.get: the store, the value and the exception raised
ShelveResultStore_get(rs, fs, key) ==
    LET opened == ShelveResultStore_open(rs)
        failed == [rs |-> opened, value |-> NoValue, raised |-> "ResultRetrievalError"]
    IN  IF key \notin DOMAIN opened.cache
        THEN failed
        ELSE IF opened.cache[key].kind = "loader"
        THEN IF key \in DOMAIN fs
             THEN [rs |-> [opened EXCEPT !.hits = @ + 1], value |-> fs[key],
                   raised |-> "none"]
             ELSE failed
        ELSE [rs |-> [opened EXCEPT !.hits = @ + 1],
              value |-> opened.cache[key].value, raised |-> "none"]

\* ShelveResultStore.delete: del self.cache[key], with no self.open() before
\* it.  Without the attribute it is an AttributeError, on a closed shelf a
\* ValueError, on an absent key a KeyError.
ShelveResultStore_delete(rs, key) ==
    IF rs.shelf = "unset" THEN [rs |-> rs, raised |-> "AttributeError"]
    ELSE IF rs.shelf = "closed" THEN [rs |-> rs, raised |-> "ValueError"]
    ELSE IF key \notin DOMAIN rs.cache THEN [rs |-> rs, raised |-> "KeyError"]
    ELSE [rs |-> [rs EXCEPT !.cache = Remove(@, {key})], raised |-> "none"]

\* ----------------------------------------------- store.py: SQLiteMetadataStore
\* A metadata store object: the tables cache_metadata (rows, keyed by
\* context_key), history (appended in id order) and nodes, and the counters.
\* rows, history and nodes are the tables as the store's connection sees them;
\* committed is the database file: the tables as of the last commit.
Tables(rows, history, nodes) == [rows |-> rows, history |-> history, nodes |-> nodes]

NewMetadataStore(rows, history, nodes) ==
    [rows |-> rows, history |-> history, nodes |-> nodes, hits |-> 0, misses |-> 0,
     committed |-> Tables(rows, history, nodes)]

\* self.connection.commit(): the open transaction reaches the file
commit(md) == [md EXCEPT !.committed = Tables(md.rows, md.history, md.nodes)]

SQLiteMetadataStore_size(md) == Cardinality(DOMAIN md.rows)

\* SQLiteMetadataStore.empty: self.size == 0
SQLiteMetadataStore_empty(md) == SQLiteMetadataStore_size(md) = 0

\* a write that leaves no trace in the history
add_to_history_skipped(history, context_key, run_id) == history

\* the id an INTEGER PRIMARY KEY AUTOINCREMENT column gives the next row: one
\* more than the largest id of the table
NextId(history) ==
    IF Len(history) = 0
    THEN 1
    ELSE 1 + (CHOOSE m \in {history[i].id : i \in 1..Len(history)} :
                 \A i \in 1..Len(history) : history[i].id <= m)

\* a history insert that gives every row the same id
add_to_history_same_id(history, context_key, run_id) ==
    Append(history, [id |-> 1, context_key |-> context_key, run_id |-> run_id])

\* add_to_history: INSERT INTO history (context_key, run_id) VALUES (?, ?)
add_to_history(history, context_key, run_id) ==
    Append(history, [id |-> NextId(history), context_key |-> context_key,
                     run_id |-> run_id])

\* INSERT OR REPLACE: the last write wins
InsertOrReplace(rows, context_key, to) ==
    Put(rows, context_key,
        [node_name |-> to.node_name, code_version |-> to.code,
         data_version |-> to.data])

\* INSERT OR IGNORE INTO cache_metadata
InsertOrIgnore(rows, context_key, to) ==
    IF context_key \in DOMAIN rows
    THEN rows
    ELSE Put(rows, context_key,
             [node_name |-> to.node_name, code_version |-> to.code,
              data_version |-> to.data])

\* a set that writes the history and the node but no metadata row
SQLiteMetadataStore_set_no_row(md, to, context_key, run_id) ==
    commit([md EXCEPT !.history = add_to_history(@, context_key, run_id),
                      !.nodes = @ \cup {to.code}])

SQLiteMetadataStore_set(md, to, context_key, run_id) ==
    commit([md EXCEPT !.history = add_to_history(@, context_key, run_id),
                      !.nodes = @ \cup {to.code},
                      !.rows = InsertOrIgnore(@, context_key, to)])

\* SQLiteMetadataStore.set with an h_node that json.dumps cannot serialize:
\* add_to_history has executed its INSERT when the arguments of the second
\* execute raise TypeError; nothing rolls back and commit() is not reached, so
\* the history row stays in the connection's open transaction.
SQLiteMetadataStore_set_unserializable(md, to, context_key, run_id) ==
    [md |-> [md EXCEPT !.history = add_to_history(@, context_key, run_id)],
     raised |-> "TypeError"]

\* the database opened again after the connection was closed (__del__): the
\* open transaction is rolled back, the new store reads the file
SQLiteMetadataStore_reopen(md) ==
    NewMetadataStore(md.committed.rows, md.committed.history, md.committed.nodes)

\* a get that counts every lookup as a hit
SQLiteMetadataStore_get_counts_hit(md, to_code, context_key) ==
    IF context_key \in DOMAIN md.rows
    THEN [md |-> [md EXCEPT !.hits = @ + 1], found |-> TRUE,
          fingerprint |-> Fingerprint(md.rows[context_key].node_name, to_code,
                                      md.rows[context_key].data_version)]
    ELSE [md |-> [md EXCEPT !.hits = @ + 1], found |-> FALSE,
          fingerprint |-> NoFingerprint]

\* SQLiteMetadataStore.get: the store, whether a row was found, the Fingerprint
SQLiteMetadataStore_get(md, to_code, context_key) ==
    IF context_key \in DOMAIN md.rows
    THEN [md |-> [md EXCEPT !.hits = @ + 1], found |-> TRUE,
          fingerprint |-> Fingerprint(md.rows[context_key].node_name, to_code,
                                      md.rows[context_key].data_version)]
    ELSE [md |-> [md EXCEPT !.misses = @ + 1], found |-> FALSE,
          fingerprint |-> NoFingerprint]

\* a delete that removes nothing
SQLiteMetadataStore_delete_nothing(md, to) == md

\* DELETE FROM cache_metadata WHERE code_version = to.code
SQLiteMetadataStore_delete(md, to) ==
    commit([md EXCEPT !.rows =
        Remove(@, {k \in DOMAIN md.rows : md.rows[k].code_version = to.code})])

\* latest_run_id: SELECT run_id FROM history ORDER BY id LIMIT 1
latest_run_id(md) ==
    IF Len(md.history) = 0
    THEN [raised |-> "IndexError", run_id |-> "None"]
    ELSE [raised |-> "none", run_id |-> md.history[1].run_id]

\* The rows get_run_metadata's join yields: a history row of the run (NULL
\* equals nothing in SQL) joined to the metadata row of its context key.
RunRows(md, run_id) ==
    {md.rows[md.history[i].context_key] :
        i \in {j \in 1..Len(md.history) :
                 /\ run_id # "None"
                 /\ md.history[j].run_id = run_id
                 /\ md.history[j].context_key \in DOMAIN md.rows}}

\* get_run_metadata: the dictionaries {node_name: Fingerprint} the dict
\* comprehension can build; the join has no ORDER BY, so any of a node's rows
\* may come last.
get_run_metadata(md, run_id) ==
    LET rr == RunRows(md, run_id)
        names == {r.node_name : r \in rr}
    IN  {f \in [names -> {Fingerprint(r.node_name, r.code_version, r.data_version) : r \in rr}] :
            \A nm \in names : f[nm].node_name = nm}

\* --------------------------------------------- store.py: InMemoryMetadataStore
\* An in-memory metadata store object: state {to_code: {context_key: to_data}},
\* code_to_name and the counters.
NewMemoryStore ==
    [state |-> EmptyDict, code_to_name |-> EmptyDict, hits |-> 0, misses |-> 0]

\* len(self.state)
InMemoryMetadataStore_size(ms) == Cardinality(DOMAIN ms.state)

\* self.state == {}
InMemoryMetadataStore_empty(ms) == DOMAIN ms.state = {}

\* InMemoryMetadataStore.set: the store and the exception raised.  A data
\* version is a non-empty digest string, so a retrieved one is truthy.
\* a set where the last write wins and nothing is raised
InMemoryMetadataStore_set_overwrite(ms, to, context_key) ==
    LET named == [ms EXCEPT !.code_to_name = Put(@, to.code, to.node_name)]
        keyed == IF to.code \in DOMAIN named.state
                 THEN named
                 ELSE [named EXCEPT !.state = Put(@, to.code, EmptyDict)]
    IN  [ms |-> [keyed EXCEPT !.state[to.code] = Put(@, context_key, to.data)],
         raised |-> "none"]

InMemoryMetadataStore_set(ms, to, context_key) ==
    LET named == [ms EXCEPT !.code_to_name = Put(@, to.code, to.node_name)]
        keyed == IF to.code \in DOMAIN named.state
                 THEN named
                 ELSE [named EXCEPT !.state = Put(@, to.code, EmptyDict)]
    IN  IF context_key \in DOMAIN keyed.state[to.code]
        THEN IF keyed.state[to.code][context_key] # to.data
             THEN [ms |-> keyed, raised |-> "MetadataStoreIndexingError"]
             ELSE [ms |-> keyed, raised |-> "none"]
        ELSE [ms |-> [keyed EXCEPT !.state[to.code] = Put(@, context_key, to.data)],
              raised |-> "none"]

\* a get that counts a miss along with every hit
InMemoryMetadataStore_get_counts_both(ms, to_code, context_key) ==
    IF to_code \in DOMAIN ms.state /\ context_key \in DOMAIN ms.state[to_code]
    THEN [ms |-> [ms EXCEPT !.hits = @ + 1, !.misses = @ + 1], found |-> TRUE,
          fingerprint |-> Fingerprint(ms.code_to_name[to_code], to_code,
                                      ms.state[to_code][context_key])]
    ELSE [ms |-> [ms EXCEPT !.misses = @ + 1], found |-> FALSE,
          fingerprint |-> NoFingerprint]

\* InMemoryMetadataStore.get: the store, whether found, the Fingerprint
InMemoryMetadataStore_get(ms, to_code, context_key) ==
    IF to_code \in DOMAIN ms.state /\ context_key \in DOMAIN ms.state[to_code]
    THEN [ms |-> [ms EXCEPT !.hits = @ + 1], found |-> TRUE,
          fingerprint |-> Fingerprint(ms.code_to_name[to_code], to_code,
                                      ms.state[to_code][context_key])]
    ELSE [ms |-> [ms EXCEPT !.misses = @ + 1], found |-> FALSE,
          fingerprint |-> NoFingerprint]

\* InMemoryMetadataStore.delete: removes the context keys of to.code whose
\* data equals to.data
InMemoryMetadataStore_delete(ms, to) ==
    IF to.code \notin DOMAIN ms.state
    THEN ms
    ELSE [ms EXCEPT !.state[to.code] =
            Remove(@, {k \in DOMAIN ms.state[to.code] : ms.state[to.code][k] = to.data})]

\* ------------------------------------------------ adapters.py: SmartCacheAdapter
VARIABLES
    memory_store,       \* an InMemoryMetadataStore object
    api_call,           \* the most recent call made directly on a store or on
                        \* a function of fingerprinting.py
    metadata_store,     \* the SQLiteMetadataStore object over the database
    result_store,       \* the ShelveResultStore object over the shelve
    files,              \* the side-channel files, by the key in their name
    tags,               \* node.tags of the graph's nodes (the keys of each dict)
    verA,               \* the version of A's function in the driver's module
    resume_from,        \* adapter.resume_from ("None" when unset)
    always_recompute,   \* adapter.always_recompute
    fingerprints,       \* adapter.fingerprints
    code_versions,      \* adapter.code_versions
    data_savers,        \* names n with adapter.data_savers[n] (it is tags[n] itself)
    run_id,             \* adapter.run_id
    pc,                 \* the engine: "idle", "execute", "after", "teardown"
    todo,               \* the nodes still to evaluate in this execution
    inputs,             \* inputs of this execution
    overrides,          \* overrides of this execution
    computed,           \* the engine's results of this execution, by node name
    result,             \* the value run_to_execute_node returned for Head(todo)
    runs,               \* executions started so far
    coordinators,       \* adapters constructed after the first
    externals,          \* external store calls made so far
    invoked,            \* times each node's callable ran in this execution
    last,               \* what the most recent step did
    cur,                \* what is recorded of this execution
    executions,         \* the executions that ended, oldest first
    run_fingerprints,   \* FingerprintingAdapter.run_fingerprints
    fingerprint_files   \* the files <path>/fingerprints/<run_id>.json, by run id

vars == <<memory_store, api_call, metadata_store, result_store, files, tags, verA, resume_from,
          always_recompute, fingerprints, code_versions, data_savers, run_id,
          pc, todo, inputs, overrides, computed, result, runs, coordinators,
          externals, invoked, last, cur, executions, run_fingerprints,
          fingerprint_files>>

ResumeOptions == {"None", "latest", "r1"}

\* the run_id the engine gives its k-th execution
EngineRunId(k) == "r" \o ToString(k)

\* f"{node_name}__input"
InputCode(node_name) == node_name \o "__input"

\* inputs fingerprinted under the node's bare name as code
process_inputs_bare_name(fps, ins) ==
    Update(fps, [n \in DOMAIN ins |-> Fingerprint(n, n, hash_value(ins[n]))])

\* _process_inputs
process_inputs(fps, ins) ==
    Update(fps, [n \in DOMAIN ins |-> Fingerprint(n, InputCode(n), hash_value(ins[n]))])

\* _process_overrides
process_overrides(fps, cvs, ovs) ==
    Update(fps, [n \in DOMAIN ovs |-> Fingerprint(n, cvs[n], hash_value(ovs[n]))])

\* a hook start that keeps the fingerprints of the execution before
fingerprints_kept(fps) == fps

\* run_before_graph_execution: self.fingerprints = {}
reset_fingerprints(fps) == EmptyDict

\* _parse_node_tags: the names added to data_savers and to always_recompute
parse_node_tags(tg) ==
    [data_savers |-> {n \in Nodes : "cache" \in tg[n]},
     always_recompute |-> {n \in Nodes : "cache" \in tg[n] /\ "always_recompute" \in tg[n]}]

\* _resolve_run_overrides: the exception raised and the fingerprint maps that
\* fingerprints.update(**fingerprints_from_run) can leave
resolve_run_overrides(fps, md, resume) ==
    IF resume = "None"
    THEN [raised |-> "none", fingerprints |-> {fps}]
    ELSE LET latest == latest_run_id(md)
             resume_run_id == IF resume = "latest" THEN latest.run_id ELSE resume
         IN  IF resume = "latest" /\ latest.raised # "none"
             THEN [raised |-> latest.raised, fingerprints |-> {fps}]
             ELSE [raised |-> "none",
                   fingerprints |-> {Update(fps, f) : f \in get_run_metadata(md, resume_run_id)}]

\* [self.fingerprints[dep_name] for dep_name in node_kwargs.keys()]
DepsKnown(fps, node_name) ==
    \A i \in 1..Len(KwargNames(node_name)) : KwargNames(node_name)[i] \in DOMAIN fps

Dependencies(fps, node_name) ==
    [i \in 1..Len(KwargNames(node_name)) |-> fps[KwargNames(node_name)[i]]]

\* a lookup that asks the metadata store even when memory has the fingerprint
lookup_fingerprint_always_store(fps, md, node_name, code_version, context_key) ==
    LET looked == SQLiteMetadataStore_get(md, code_version, context_key)
    IN  IF node_name \in DOMAIN fps
        THEN [looked EXCEPT !.found = TRUE, !.fingerprint = fps[node_name]]
        ELSE looked

\* run_to_execute_node, the lookup: the in-memory fingerprint when there is
\* one, else metadata_store.get
lookup_fingerprint(fps, md, node_name, code_version, context_key) ==
    IF node_name \in DOMAIN fps
    THEN [md |-> md, found |-> TRUE, fingerprint |-> fps[node_name]]
    ELSE SQLiteMetadataStore_get(md, code_version, context_key)

\* a hook that reports a failed recomputation as a failed retrieval
run_to_execute_node_wrapping(fps, cvs, md, rs, fs, node_name, call) ==
    IF ~DepsKnown(fps, node_name)
    THEN [md |-> md, rs |-> rs, result |-> NoValue, raised |-> "KeyError",
          called |-> 0, log |-> "none", source |-> "none",
          fingerprint |-> NoFingerprint]
    ELSE
    LET code_version == cvs[node_name]
        context_key == create_context_key(code_version, Dependencies(fps, node_name))
        in_memory == node_name \in DOMAIN fps
        looked == lookup_fingerprint(fps, md, node_name, code_version, context_key)
        source == IF in_memory THEN "memory" ELSE "store"
        got == ShelveResultStore_get(rs, fs, looked.fingerprint.data)
    IN  IF ~looked.found
        THEN [md |-> looked.md, rs |-> rs, result |-> call.value,
              raised |-> call.raised, called |-> 1, log |-> "cache miss",
              source |-> "none", fingerprint |-> NoFingerprint]
        ELSE IF got.raised = "none"
        THEN [md |-> looked.md, rs |-> got.rs, result |-> got.value,
              raised |-> "none", called |-> 0, log |-> "cache hit",
              source |-> source, fingerprint |-> looked.fingerprint]
        ELSE [md |-> SQLiteMetadataStore_delete(looked.md, looked.fingerprint),
              rs |-> got.rs, result |-> call.value,
              raised |-> IF call.raised = "none" THEN "none" ELSE "ResultRetrievalError",
              called |-> 1, log |-> "cache retrieval error", source |-> source,
              fingerprint |-> looked.fingerprint]

\* run_to_execute_node.  call is what node_callable(**node_kwargs) does when
\* invoked.  Gives the stores, the value returned, the exception raised, how
\* often the callable ran, the line logged and where the fingerprint came from.
run_to_execute_node(fps, cvs, md, rs, fs, node_name, call) ==
    IF ~DepsKnown(fps, node_name)
    THEN [md |-> md, rs |-> rs, result |-> NoValue, raised |-> "KeyError",
          called |-> 0, log |-> "none", source |-> "none",
          fingerprint |-> NoFingerprint]
    ELSE
    LET code_version == cvs[node_name]
        context_key == create_context_key(code_version, Dependencies(fps, node_name))
        in_memory == node_name \in DOMAIN fps
        looked == lookup_fingerprint(fps, md, node_name, code_version, context_key)
        source == IF in_memory THEN "memory" ELSE "store"
        got == ShelveResultStore_get(rs, fs, looked.fingerprint.data)
    IN  IF ~looked.found
        THEN [md |-> looked.md, rs |-> rs, result |-> call.value,
              raised |-> call.raised, called |-> 1, log |-> "cache miss",
              source |-> "none", fingerprint |-> NoFingerprint]
        ELSE IF got.raised = "none"
        THEN [md |-> looked.md, rs |-> got.rs, result |-> got.value,
              raised |-> "none", called |-> 0, log |-> "cache hit",
              source |-> source, fingerprint |-> looked.fingerprint]
        ELSE [md |-> SQLiteMetadataStore_delete(looked.md, looked.fingerprint),
              rs |-> got.rs, result |-> call.value, raised |-> call.raised,
              called |-> 1, log |-> "cache retrieval error", source |-> source,
              fingerprint |-> looked.fingerprint]

\* a miss that writes the metadata store before the result store, so that the
\* metadata row stays when the result store's set raises
after_node_absent_metadata_first(fps, cvs, dsv, tg, md, rs, fs, resume, node_name, value, context_key) ==
    LET fingerprint == Fingerprint(node_name, cvs[node_name], hash_value(value))
        written == SQLiteMetadataStore_set(md, fingerprint, context_key, resume)
        stored == ShelveResultStore_set(rs, fs, fingerprint.data, value,
                                        node_name \in dsv, tg[node_name])
    IN  [md |-> written, rs |-> stored.rs, files |-> stored.files,
         tags |-> [tg EXCEPT ![node_name] = stored.kw],
         fingerprints |-> IF stored.raised # "none" THEN fps
                          ELSE Put(fps, node_name, fingerprint),
         raised |-> stored.raised, log |-> "absent"]

\* run_after_node_execution when the metadata store has no fingerprint for
\* the context key: fingerprint the result and write both stores.  md is the
\* metadata store after the lookup; resume is self.resume_from, which the
\* hook passes as run_id.
after_node_absent(fps, cvs, dsv, tg, md, rs, fs, resume, node_name, value, context_key) ==
    LET fingerprint == Fingerprint(node_name, cvs[node_name], hash_value(value))
        stored == ShelveResultStore_set(rs, fs, fingerprint.data, value,
                                        node_name \in dsv, tg[node_name])
    IN  IF stored.raised # "none"
        THEN [md |-> md, rs |-> stored.rs, files |-> stored.files,
              tags |-> [tg EXCEPT ![node_name] = stored.kw], fingerprints |-> fps,
              raised |-> stored.raised, log |-> "absent"]
        ELSE [md |-> SQLiteMetadataStore_set(md, fingerprint, context_key, resume),
              rs |-> stored.rs, files |-> stored.files,
              tags |-> [tg EXCEPT ![node_name] = stored.kw],
              fingerprints |-> Put(fps, node_name, fingerprint),
              raised |-> "none", log |-> "absent"]

\* a hit that records the node's name and code but not the stored data version
after_node_found_unversioned(fps, tg, md, rs, fs, node_name, fingerprint) ==
    [md |-> md, rs |-> rs, files |-> fs, tags |-> tg,
     fingerprints |-> Put(fps, node_name,
                          Fingerprint(node_name, fingerprint.code, Unhashable)),
     raised |-> "none", log |-> "found"]

\* run_after_node_execution when the metadata store has the fingerprint
after_node_found(fps, tg, md, rs, fs, node_name, fingerprint) ==
    [md |-> md, rs |-> rs, files |-> fs, tags |-> tg,
     fingerprints |-> Put(fps, node_name, fingerprint),
     raised |-> "none", log |-> "found"]

\* a run_after_node_execution that writes the stores whatever the lookup found
run_after_node_execution_always_writes(fps, cvs, dsv, tg, md, rs, fs, resume, node_name, value) ==
    LET context_key == create_context_key(cvs[node_name], Dependencies(fps, node_name))
        looked == SQLiteMetadataStore_get(md, cvs[node_name], context_key)
    IN  after_node_absent(fps, cvs, dsv, tg, looked.md, rs, fs, resume, node_name,
                          value, context_key)

\* run_after_node_execution.  dsv is data_savers, tg the nodes' tags.
run_after_node_execution(fps, cvs, dsv, tg, md, rs, fs, resume, node_name, value) ==
    IF ~DepsKnown(fps, node_name)
    THEN [md |-> md, rs |-> rs, files |-> fs, tags |-> tg, fingerprints |-> fps,
          raised |-> "KeyError", log |-> "none"]
    ELSE
    LET code_version == cvs[node_name]
        context_key == create_context_key(code_version, Dependencies(fps, node_name))
        looked == SQLiteMetadataStore_get(md, code_version, context_key)
    IN  IF looked.found
        THEN after_node_found(fps, tg, looked.md, rs, fs, node_name, looked.fingerprint)
        ELSE after_node_absent(fps, cvs, dsv, tg, looked.md, rs, fs, resume, node_name,
                               value, context_key)

\* ------------------------------------------------------------------ the steps
\* What a step did: the hook called, its node, the line it logged, where the
\* fingerprint came from, the exception it raised, how often the callable
\* ran, the value and fingerprint it ended with, and whether, when it began,
\* the metadata store mapped the node's context key to a data version that
\* was no key of the result store.
Step(hook, node, log, source, raised, called, value, fingerprint, desync0) ==
    [hook |-> hook, node |-> node, log |-> log, source |-> source,
     raised |-> raised, called |-> called, result |-> value,
     fingerprint |-> fingerprint, desync0 |-> desync0]

PlainStep(hook) ==
    Step(hook, "none", "none", "none", "none", 0, NoValue, NoFingerprint, FALSE)

\* What is recorded of an execution: whether it raised nothing so far, its
\* inputs and overrides, the engine's results, and, from when it began,
\* whether the stores were empty, the result store's size and hits, the
\* number of external calls and of adapters constructed; and the nodes whose
\* run_to_execute_node began with the stores out of step (Desync below);
\* and, once it ended, the adapter's fingerprints.
NoExecution ==
    [ok |-> FALSE, inputs |-> EmptyDict, overrides |-> EmptyDict,
     outputs |-> EmptyDict, empty0 |-> FALSE, size0 |-> 0, hits0 |-> 0,
     externals0 |-> 0, coordinator |-> 0, desync |-> {}, fingerprints |-> EmptyDict]

StoresEmpty ==
    /\ DOMAIN result_store.cache = {}
    /\ DOMAIN metadata_store.rows = {}
    /\ Len(metadata_store.history) = 0

\* no store call made directly yet
NoCall ==
    [op |-> "none", key |-> hash_value(NoValue), to |-> NoFingerprint,
     context_key |-> NoneSentinel, raised |-> "none", found |-> FALSE,
     value |-> NoValue, saver_kwargs |-> {}, fingerprint |-> NoFingerprint]

Init ==
    /\ memory_store = NewMemoryStore
    /\ api_call = NoCall
    /\ metadata_store = NewMetadataStore(EmptyDict, << >>, {})
    /\ result_store = NewResultStore(EmptyDict)
    /\ files = EmptyDict
    /\ tags \in TagConfigs
    /\ verA \in VersionsOfA
    /\ resume_from \in ResumeOptions
    /\ always_recompute = {}
    /\ fingerprints = EmptyDict
    /\ code_versions = EmptyDict
    /\ data_savers = {}
    /\ run_id = "None"
    /\ pc = "idle"
    /\ todo = << >>
    /\ inputs = EmptyDict
    /\ overrides = EmptyDict
    /\ computed = EmptyDict
    /\ result = NoValue
    /\ runs = 0
    /\ coordinators = 0
    /\ externals = 0
    /\ invoked = [n \in Nodes |-> 0]
    /\ last = PlainStep("init")
    /\ cur = NoExecution
    /\ executions = << >>
    /\ run_fingerprints = EmptyDict
    /\ fingerprint_files = EmptyDict

\* SmartCacheAdapter(resume_from=resume) built for a driver whose module has
\* version ver of A, over the stores already on disk.
NewCoordinator(resume, ver) ==
    /\ pc = "idle"
    /\ coordinators < MaxCoordinators
    /\ coordinators' = coordinators + 1
    /\ metadata_store' = SQLiteMetadataStore_reopen(metadata_store)
    /\ result_store' = NewResultStore(result_store.cache)
    /\ resume_from' = resume
    /\ verA' = ver
    /\ always_recompute' = {}
    /\ fingerprints' = EmptyDict
    /\ code_versions' = EmptyDict
    /\ data_savers' = {}
    /\ run_id' = "None"
    /\ last' = PlainStep("init")
    /\ UNCHANGED <<memory_store, api_call, run_fingerprints, fingerprint_files>>
    /\ UNCHANGED <<files, tags, pc, todo, inputs, overrides, computed, result, runs,
                   externals, invoked, cur, executions>>

\* driver.execute(inputs=ins, overrides=ovs): run_before_graph_execution
BeforeGraphExecution(ins, ovs) ==
    LET cvs == [n \in Nodes \cup InputNodes |-> NodeVersion(n, verA)]
        parsed == parse_node_tags(tags)
        resolved == resolve_run_overrides(reset_fingerprints(fingerprints), metadata_store,
                                          resume_from)
    IN  /\ pc = "idle"
        /\ runs < MaxRuns
        /\ runs' = runs + 1
        /\ run_id' = EngineRunId(runs + 1)
        /\ code_versions' = cvs
        /\ data_savers' = data_savers \cup parsed.data_savers
        /\ always_recompute' = always_recompute \cup parsed.always_recompute
        /\ \E fps \in resolved.fingerprints :
              fingerprints' = IF resolved.raised # "none"
                              THEN EmptyDict
                              ELSE process_overrides(process_inputs(fps, ins), cvs, ovs)
        /\ inputs' = ins
        /\ overrides' = ovs
        /\ computed' = Update(ins, ovs)
        /\ todo' = SelectSeq(TopoOrder, LAMBDA n : n \notin DOMAIN ovs)
        /\ result' = NoValue
        /\ invoked' = [n \in Nodes |-> 0]
        /\ pc' = IF resolved.raised # "none" THEN "teardown" ELSE "execute"
        /\ last' = Step("before_graph", "none", "none", "none", resolved.raised, 0,
                        NoValue, NoFingerprint, FALSE)
        /\ cur' = [ok |-> resolved.raised = "none", inputs |-> ins,
                   overrides |-> ovs, outputs |-> EmptyDict, empty0 |-> StoresEmpty,
                   size0 |-> ShelveResultStore_size(result_store),
                   hits0 |-> result_store.hits,
                   externals0 |-> externals, coordinator |-> coordinators,
                   desync |-> {}, fingerprints |-> EmptyDict]
        /\ UNCHANGED <<memory_store, api_call, run_fingerprints, fingerprint_files>>
        /\ UNCHANGED <<metadata_store, result_store, files, tags, verA, resume_from,
                       coordinators, externals, executions>>

\* the context key of node n under the adapter's current fingerprints
ContextKeyOf(n) == create_context_key(code_versions[n], Dependencies(fingerprints, n))

\* the metadata store maps n's context key to a data version that is no key
\* of the result store
Desync(n) ==
    /\ DepsKnown(fingerprints, n)
    /\ ContextKeyOf(n) \in DOMAIN metadata_store.rows
    /\ metadata_store.rows[ContextKeyOf(n)].data_version \notin DOMAIN result_store.cache

NodeKwargs(n) == [k \in {KwargNames(n)[i] : i \in 1..Len(KwargNames(n))} |-> computed[k]]

\* the engine evaluates Head(todo) through run_to_execute_node
ToExecuteNode ==
    /\ pc = "execute"
    /\ LET n == Head(todo)
           out == run_to_execute_node(fingerprints, code_versions, metadata_store,
                                      result_store, files, n,
                                      Callable(n, verA, NodeKwargs(n)))
       IN  /\ metadata_store' = out.md
           /\ result_store' = out.rs
           /\ result' = out.result
           /\ invoked' = [invoked EXCEPT ![n] = @ + out.called]
           /\ pc' = IF out.raised = "none" THEN "after" ELSE "teardown"
           /\ cur' = [cur EXCEPT !.ok = @ /\ out.raised = "none",
                                 !.desync = IF Desync(n) THEN @ \cup {n} ELSE @]
           /\ last' = Step("to_execute", n, out.log, out.source, out.raised,
                           out.called, out.result, out.fingerprint, Desync(n))
    /\ UNCHANGED <<memory_store, api_call, run_fingerprints, fingerprint_files>>
    /\ UNCHANGED <<files, tags, verA, resume_from, always_recompute, fingerprints,
                   code_versions, data_savers, run_id, todo, inputs, overrides,
                   computed, runs, coordinators, externals, executions>>

\* the engine hands the result to run_after_node_execution
AfterNodeExecution ==
    /\ pc = "after"
    /\ LET n == Head(todo)
           out == run_after_node_execution(fingerprints, code_versions, data_savers,
                                           tags, metadata_store, result_store, files,
                                           resume_from, n, result)
       IN  /\ metadata_store' = out.md
           /\ result_store' = out.rs
           /\ files' = out.files
           /\ tags' = out.tags
           /\ fingerprints' = out.fingerprints
           /\ computed' = Put(computed, n, result)
           /\ todo' = Tail(todo)
           /\ pc' = IF out.raised = "none" /\ Len(todo) > 1 THEN "execute" ELSE "teardown"
           /\ cur' = [cur EXCEPT !.ok = @ /\ out.raised = "none"]
           /\ last' = Step("after_node", n, out.log, "none", out.raised, 0, result,
                           IF out.raised = "none" THEN out.fingerprints[n]
                           ELSE NoFingerprint, FALSE)
    /\ UNCHANGED <<memory_store, api_call, run_fingerprints, fingerprint_files>>
    /\ UNCHANGED <<verA, resume_from, always_recompute, code_versions, data_savers,
                   run_id, inputs, overrides, result, runs, coordinators, externals,
                   invoked, executions>>

\* run_after_graph_execution: a placeholder
AfterGraphExecution ==
    /\ pc = "teardown"
    /\ pc' = "idle"
    /\ executions' = Append(executions, [cur EXCEPT !.outputs = computed,
                                                    !.fingerprints = fingerprints])
    /\ cur' = NoExecution
    /\ todo' = << >>
    /\ inputs' = EmptyDict
    /\ overrides' = EmptyDict
    /\ computed' = EmptyDict
    /\ result' = NoValue
    /\ invoked' = [n \in Nodes |-> 0]
    /\ last' = PlainStep("after_graph")
    /\ UNCHANGED <<memory_store, api_call, run_fingerprints, fingerprint_files>>
    /\ UNCHANGED <<metadata_store, result_store, files, tags, verA, resume_from,
                   always_recompute, fingerprints, code_versions, data_savers, run_id,
                   runs, coordinators, externals>>

\* someone calls result_store.delete(key), between two executions or between
\* two hooks of one
ExternalDelete(key) ==
    /\ pc \in {"idle", "after"}
    /\ externals < MaxExternal
    /\ key \in DOMAIN result_store.cache
    /\ ShelveResultStore_delete(result_store, key).raised = "none"
    /\ externals' = externals + 1
    /\ result_store' = ShelveResultStore_delete(result_store, key).rs
    /\ last' = PlainStep("external")
    /\ UNCHANGED <<memory_store, api_call, run_fingerprints, fingerprint_files>>
    /\ UNCHANGED <<metadata_store, files, tags, verA, resume_from, always_recompute,
                   fingerprints, code_versions, data_savers, run_id, pc, todo, inputs,
                   overrides, computed, result, runs, coordinators, invoked, cur, executions>>

\* a side-channel file is removed from the cache directory
ExternalRemoveFile(key) ==
    /\ pc = "idle"
    /\ externals < MaxExternal
    /\ key \in DOMAIN files
    /\ externals' = externals + 1
    /\ files' = Remove(files, {key})
    /\ last' = PlainStep("external")
    /\ UNCHANGED <<memory_store, api_call, run_fingerprints, fingerprint_files>>
    /\ UNCHANGED <<metadata_store, result_store, tags, verA, resume_from,
                   always_recompute, fingerprints, code_versions, data_savers, run_id,
                   pc, todo, inputs, overrides, computed, result, runs, coordinators,
                   invoked, cur, executions>>

InputDicts == [InputNodes -> InputValues]

OverrideDicts == {EmptyDict} \cup [{"A"} -> OverrideValues]

Next ==
    \/ \E resume \in ResumeOptions, ver \in VersionsOfA : NewCoordinator(resume, ver)
    \/ \E ins \in InputDicts, ovs \in OverrideDicts : BeforeGraphExecution(ins, ovs)
    \/ ToExecuteNode
    \/ AfterNodeExecution
    \/ AfterGraphExecution
    \/ \E key \in DOMAIN result_store.cache : ExternalDelete(key)
    \/ \E key \in DOMAIN files : ExternalRemoveFile(key)

Spec == Init /\ [][Next]_vars

\* ------------------------------------------------- the stores driven directly
\* The stores' API called as tests/caching/test_result_store.py and
\* test_metadata_store.py call it: a ShelveResultStore, an initialized
\* SQLiteMetadataStore and an InMemoryMetadataStore, no adapter.

\* keys and values given to the result store
ResultKeys == {hash_value(v) : v \in InputValues}

\* values given to the result store: the inputs' values and None
ResultValues == InputValues \cup {NoValue}

\* saver_kwargs: None, or the node's tags {"cache": format}
SaverOptions == {[has |-> FALSE, kw |-> {}], [has |-> TRUE, kw |-> {"cache"}]}

\* data versions, fingerprints and context keys given to the metadata stores
StoreData == {hash_value(<<"int", 4>>), hash_value(<<"int", 5>>)}

StoreFingerprints ==
    {Fingerprint("A", "A_v1", d) : d \in StoreData}
        \cup {Fingerprint("B", "B_v1", d) : d \in StoreData}

StoreContextKeys(code) ==
    IF code = "A_v1"
    THEN {create_context_key("A_v1", << >>)}
    ELSE {create_context_key("B_v1",
                             <<Fingerprint("A", "A_v1", hash_value(<<"int", 1>>)),
                               Fingerprint("external", InputCode("external"),
                                           hash_value(e))>>) : e \in InputValues}

StoreCodes == {f.code : f \in StoreFingerprints}

\* everything but the stores
adapter_vars == <<tags, verA, resume_from, always_recompute, fingerprints,
                  code_versions, data_savers, run_id, pc, todo, inputs, overrides,
                  computed, result, runs, coordinators, invoked, last, cur, executions,
                  run_fingerprints, fingerprint_files>>

StoreInit ==
    /\ Init
    /\ tags = NoTags
    /\ verA = "A_v1"
    /\ resume_from = "None"

Called == externals < MaxCalls /\ externals' = externals + 1

\* result_store.set(key=key, value=value, saver_kwargs=...)
ResultSet(key, value, o) ==
    LET out == ShelveResultStore_set(result_store, files, key, value, o.has, o.kw)
    IN  /\ Called
        /\ result_store' = out.rs
        /\ files' = out.files
        /\ api_call' = [NoCall EXCEPT !.op = "result_store.set", !.key = key,
                                      !.value = value, !.raised = out.raised,
                                      !.saver_kwargs = IF o.has THEN o.kw ELSE {}]
        /\ UNCHANGED <<metadata_store, memory_store, adapter_vars>>

\* result_store.get(key)
ResultGet(key) ==
    LET out == ShelveResultStore_get(result_store, files, key)
    IN  /\ Called
        /\ result_store' = out.rs
        /\ api_call' = [NoCall EXCEPT !.op = "result_store.get", !.key = key,
                                      !.value = out.value, !.raised = out.raised]
        /\ UNCHANGED <<files, metadata_store, memory_store, adapter_vars>>

\* result_store.delete(key)
ResultDelete(key) ==
    LET out == ShelveResultStore_delete(result_store, key)
    IN  /\ Called
        /\ result_store' = out.rs
        /\ api_call' = [NoCall EXCEPT !.op = "result_store.delete", !.key = key,
                                      !.raised = out.raised]
        /\ UNCHANGED <<files, metadata_store, memory_store, adapter_vars>>

\* result_store.close()
ResultClose ==
    LET out == ShelveResultStore_close(result_store)
    IN  /\ Called
        /\ result_store' = out.rs
        /\ api_call' = [NoCall EXCEPT !.op = "result_store.close", !.raised = out.raised]
        /\ UNCHANGED <<files, metadata_store, memory_store, adapter_vars>>

\* a side-channel file is removed from the cache directory
FileRemoved(key) ==
    /\ Called
    /\ key \in DOMAIN files
    /\ files' = Remove(files, {key})
    /\ api_call' = [NoCall EXCEPT !.op = "file removed", !.key = key]
    /\ UNCHANGED <<result_store, metadata_store, memory_store, adapter_vars>>

\* metadata_store.set(to=to, context_key=context_key, h_node={}, run_id="...")
MetadataSet(to, context_key) ==
    /\ Called
    /\ metadata_store' = SQLiteMetadataStore_set(metadata_store, to, context_key, "...")
    /\ api_call' = [NoCall EXCEPT !.op = "metadata_store.set", !.to = to,
                                  !.context_key = context_key]
    /\ UNCHANGED <<result_store, files, memory_store, adapter_vars>>

\* metadata_store.set(to=to, context_key=context_key, h_node={"x": object()},
\* run_id="...")
MetadataSetUnserializable(to, context_key) ==
    LET out == SQLiteMetadataStore_set_unserializable(metadata_store, to, context_key, "...")
    IN  /\ Called
        /\ metadata_store' = out.md
        /\ api_call' = [NoCall EXCEPT !.op = "metadata_store.set", !.to = to,
                                      !.context_key = context_key, !.raised = out.raised]
        /\ UNCHANGED <<result_store, files, memory_store, adapter_vars>>

\* del metadata_store; metadata_store = SQLiteMetadataStore(path=...)
MetadataReopen ==
    /\ Called
    /\ metadata_store' = SQLiteMetadataStore_reopen(metadata_store)
    /\ api_call' = [NoCall EXCEPT !.op = "metadata_store.reopen"]
    /\ UNCHANGED <<result_store, files, memory_store, adapter_vars>>

\* metadata_store.get(to_code=to_code, context_key=context_key)
MetadataGet(to_code, context_key) ==
    LET out == SQLiteMetadataStore_get(metadata_store, to_code, context_key)
    IN  /\ Called
        /\ metadata_store' = out.md
        /\ api_call' = [NoCall EXCEPT !.op = "metadata_store.get",
                                      !.to = Fingerprint("", to_code, hash_value(NoValue)),
                                      !.context_key = context_key, !.found = out.found,
                                      !.fingerprint = out.fingerprint]
        /\ UNCHANGED <<result_store, files, memory_store, adapter_vars>>

\* metadata_store.delete(to=to)
MetadataDelete(to) ==
    /\ Called
    /\ metadata_store' = SQLiteMetadataStore_delete(metadata_store, to)
    /\ api_call' = [NoCall EXCEPT !.op = "metadata_store.delete", !.to = to]
    /\ UNCHANGED <<result_store, files, memory_store, adapter_vars>>

\* the same three calls on the InMemoryMetadataStore
MemorySet(to, context_key) ==
    LET out == InMemoryMetadataStore_set(memory_store, to, context_key)
    IN  /\ Called
        /\ memory_store' = out.ms
        /\ api_call' = [NoCall EXCEPT !.op = "memory_store.set", !.to = to,
                                      !.context_key = context_key, !.raised = out.raised]
        /\ UNCHANGED <<result_store, files, metadata_store, adapter_vars>>

MemoryGet(to_code, context_key) ==
    LET out == InMemoryMetadataStore_get(memory_store, to_code, context_key)
    IN  /\ Called
        /\ memory_store' = out.ms
        /\ api_call' = [NoCall EXCEPT !.op = "memory_store.get",
                                      !.to = Fingerprint("", to_code, hash_value(NoValue)),
                                      !.context_key = context_key, !.found = out.found,
                                      !.fingerprint = out.fingerprint]
        /\ UNCHANGED <<result_store, files, metadata_store, adapter_vars>>

MemoryDelete(to) ==
    /\ Called
    /\ memory_store' = InMemoryMetadataStore_delete(memory_store, to)
    /\ api_call' = [NoCall EXCEPT !.op = "memory_store.delete", !.to = to]
    /\ UNCHANGED <<result_store, files, metadata_store, adapter_vars>>

StoreNext ==
    \/ \E key \in ResultKeys, value \in ResultValues, o \in SaverOptions :
          ResultSet(key, value, o)
    \/ \E key \in ResultKeys : ResultGet(key)
    \/ \E key \in ResultKeys : ResultDelete(key)
    \/ ResultClose
    \/ \E key \in ResultKeys : FileRemoved(key)
    \/ \E to \in StoreFingerprints : \E k \in StoreContextKeys(to.code) : MetadataSet(to, k)
    \/ \E to \in StoreFingerprints : \E k \in StoreContextKeys(to.code) :
          MetadataSetUnserializable(to, k)
    \/ MetadataReopen
    \/ \E code \in StoreCodes : \E k \in StoreContextKeys(code) : MetadataGet(code, k)
    \/ \E to \in StoreFingerprints : MetadataDelete(to)
    \/ \E to \in StoreFingerprints : \E k \in StoreContextKeys(to.code) : MemorySet(to, k)
    \/ \E code \in StoreCodes : \E k \in StoreContextKeys(code) : MemoryGet(code, k)
    \/ \E to \in StoreFingerprints : MemoryDelete(to)

StoreSpec == StoreInit /\ [][StoreNext]_vars

\* ------------------------------------------- fingerprinting.py called directly
\* The codec, create_context_key and hash_value applied to inputs of every
\* small shape; api_call holds the call and what it gave.

SeqsUpTo(S, n) == UNION {[1..k -> S] : k \in 0..n}

\* {str -> str} mappings of space-free strings, the empty string included
StrDicts == UNION {[K -> {"", "v1"}] : K \in SUBSET {"", "A", "B"}}

\* the fingerprints of dependencies, and their sequences
DepFingerprints ==
    {Fingerprint(n, NodeVersion(n, "A_v1"), hash_value(v)) :
        n \in {"A", "external"}, v \in InputValues}

DepSeqs == SeqsUpTo(DepFingerprints, MaxDeps)

\* {dep.node_name: dep.data for dep in dependencies}
DepMapping(dependencies) ==
    LET names == {dependencies[i].node_name : i \in 1..Len(dependencies)}
    IN  [nm \in names |->
            LET I == {i \in 1..Len(dependencies) : dependencies[i].node_name = nm}
            IN  dependencies[CHOOSE i \in I : \A j \in I : j <= i].data]

\* values given to hash_value: primitives, None, objects with a __dict__,
\* and lists, dicts, sets and objects over them
Primitives == {<<"int", 0>>, <<"int", 1>>, <<"str", 1>>}

Leaves == Primitives \cup {NoValue, <<"object", << >> >>,
                            <<"object", << <<<<"str", 1>>, <<"int", 1>>>> >> >>}

Distinct(seq) == \A i \in 1..Len(seq) : \A j \in 1..Len(seq) : i # j => seq[i] # seq[j]

ListValues == {<<"list", es>> : es \in SeqsUpTo(Leaves, MaxElems)}

PairSeqs ==
    {ps \in SeqsUpTo(Primitives \X Leaves, MaxElems) :
        Distinct([i \in 1..Len(ps) |-> ps[i][1]])}

DictValues == {<<"dict", ps>> : ps \in PairSeqs}

SetValues == {<<"set", es>> : es \in {x \in SeqsUpTo(Primitives, MaxElems) : Distinct(x)}}

NestedValues ==
    {<<"list", << <<"list", <<l>> >> >> >> : l \in Leaves}
        \cup {<<"object", << <<<<"str", 1>>, <<"object", << >> >> >> >> >>}

HashInputs == Leaves \cup ListValues \cup DictValues \cup SetValues \cup NestedValues

\* the entries of a dict, whatever their insertion order
Entries(m) == {m[2][i] : i \in 1..Len(m[2])}

FingerprintInit == StoreInit

\* one function is applied, once, to one input
NotCalled == api_call = NoCall

\* _decode_dict(_encode_dict(m))
CodecRoundTrip(m) ==
    /\ NotCalled
    /\ api_call' = [op |-> "_decode_dict", input |-> m,
                    output |-> decode_dict(encode_dict(m))]
    /\ UNCHANGED <<result_store, files, metadata_store, memory_store, externals, adapter_vars>>

\* NodeContext.decode(NodeContext(code_version, deps).encode())
NodeContextRoundTrip(code_version, deps) ==
    /\ NotCalled
    /\ api_call' = [op |-> "NodeContext.decode", code_version |-> code_version,
                    input |-> deps,
                    output |-> NodeContext_decode(NodeContext_encode(code_version, deps))]
    /\ UNCHANGED <<result_store, files, metadata_store, memory_store, externals, adapter_vars>>

\* create_context_key(to_code, dependencies), and again with other_order
ContextKeys(to_code, dependencies, other_order) ==
    /\ NotCalled
    /\ api_call' = [op |-> "create_context_key", to_code |-> to_code,
                    input |-> dependencies, other |-> other_order,
                    output |-> create_context_key(to_code, dependencies),
                    other_output |-> create_context_key(to_code, other_order)]
    /\ UNCHANGED <<result_store, files, metadata_store, memory_store, externals, adapter_vars>>

\* hash_value(obj)
HashValue(obj) ==
    /\ NotCalled
    /\ api_call' = [op |-> "hash_value", input |-> obj,
                    output |-> hash_value_dispatch(obj, << >>)]
    /\ UNCHANGED <<result_store, files, metadata_store, memory_store, externals, adapter_vars>>

\* the entries of dict m inserted in the order p, a permutation
Shuffled(m, p) == <<"dict", [i \in 1..Len(m[2]) |-> m[2][p[i]]]>>

\* hash_value(m) and hash_value(shuffled), two dicts with the same entries
HashShuffled(m, shuffled) ==
    /\ NotCalled
    /\ api_call' = [op |-> "hash_value(shuffled)", input |-> m, other |-> shuffled,
                    output |-> hash_value_dispatch(m, << >>),
                    other_output |-> hash_value_dispatch(shuffled, << >>)]
    /\ UNCHANGED <<result_store, files, metadata_store, memory_store, externals, adapter_vars>>

FingerprintNext ==
    \/ \E m \in StrDicts : CodecRoundTrip(m)
    \/ \E c \in {"A_v1", "B_v1"}, deps \in StrDicts : NodeContextRoundTrip(c, deps)
    \/ \E c \in {"A_v1", "B_v1"}, d1 \in DepSeqs, d2 \in DepSeqs : ContextKeys(c, d1, d2)
    \/ \E obj \in HashInputs : HashValue(obj)
    \/ \E m \in DictValues : \E p \in Permutations(1..Len(m[2])) :
          HashShuffled(m, Shuffled(m, p))

FingerprintSpec == FingerprintInit /\ [][FingerprintNext]_vars

\* ------------------------------------------- the other adapter configurations
\* The engine running the graph with a FingerprintingAdapter(path=...)
\* attached, which takes no part in node execution, and a driver whose
\* SmartCacheAdapter is given an InMemoryMetadataStore.

\* FingerprintingAdapter.run_before_graph_execution: the inputs' and then the
\* overrides' fingerprints are written over what the map holds
FingerprintingAdapter_run_before_graph_execution(rf, ins, ovs) ==
    Update(Update(rf, [n \in DOMAIN ins |-> hash_value(ins[n])]),
           [n \in DOMAIN ovs |-> hash_value(ovs[n])])

\* FingerprintingAdapter.run_after_node_execution: the result is fingerprinted
\* when the map has nothing under the node's name
FingerprintingAdapter_run_after_node_execution(rf, node_name, value) ==
    IF node_name \in DOMAIN rf THEN rf ELSE Put(rf, node_name, hash_value(value))

\* FingerprintingAdapter.run_after_graph_execution: json.dumps of the map
\* written to fingerprints/<run_id>.json
FingerprintingAdapter_run_after_graph_execution(ff, rf, run) == Put(ff, run, rf)

\* the methods and properties each metadata store class defines
StoreMethods(cls) ==
    IF cls = "SQLiteMetadataStore"
    THEN {"path", "empty", "size", "initialize", "reset", "add_to_history", "set", "get",
          "delete", "get_run_metadata", "latest_run_id", "get_latest_run"}
    ELSE {"path", "empty", "size", "set", "get", "delete", "reset"}

\* SmartCacheAdapter.run_before_graph_execution over a metadata store of class
\* cls, its first statement: self.metadata_store.initialize()
initialize_metadata_store(cls) ==
    IF "initialize" \in StoreMethods(cls) THEN "none" ELSE "AttributeError"

\* driver.execute(inputs=ins, overrides=ovs) with the FingerprintingAdapter
HostBeforeGraphExecution(ins, ovs) ==
    /\ pc = "idle"
    /\ runs < MaxRuns
    /\ runs' = runs + 1
    /\ run_id' = EngineRunId(runs + 1)
    /\ run_fingerprints' =
          FingerprintingAdapter_run_before_graph_execution(run_fingerprints, ins, ovs)
    /\ inputs' = ins
    /\ overrides' = ovs
    /\ computed' = Update(ins, ovs)
    /\ todo' = SelectSeq(TopoOrder, LAMBDA n : n \notin DOMAIN ovs)
    /\ pc' = "execute"
    /\ last' = PlainStep("before_graph")
    /\ UNCHANGED <<memory_store, api_call, metadata_store, result_store, files, tags, verA,
                   resume_from, always_recompute, fingerprints, code_versions,
                   data_savers, result, coordinators, externals, invoked, cur,
                   executions, fingerprint_files>>

\* the engine calls the function of Head(todo) and hands the result to
\* FingerprintingAdapter.run_after_node_execution
HostNodeExecution ==
    /\ pc = "execute"
    /\ LET n == Head(todo)
           call == Callable(n, verA, NodeKwargs(n))
       IN  IF call.raised # "none"
           THEN /\ pc' = "teardown"
                /\ last' = Step("after_node", n, "none", "none", call.raised, 1, NoValue,
                                NoFingerprint, FALSE)
                /\ UNCHANGED <<run_fingerprints, computed, todo>>
           ELSE /\ run_fingerprints' =
                      FingerprintingAdapter_run_after_node_execution(run_fingerprints, n,
                                                                     call.value)
                /\ computed' = Put(computed, n, call.value)
                /\ todo' = Tail(todo)
                /\ pc' = IF Len(todo) > 1 THEN "execute" ELSE "teardown"
                /\ last' = Step("after_node", n, "none", "none", "none", 1, call.value,
                                NoFingerprint, FALSE)
    /\ UNCHANGED <<memory_store, api_call, metadata_store, result_store, files, tags, verA,
                   resume_from, always_recompute, fingerprints, code_versions,
                   data_savers, run_id, inputs, overrides, result, runs, coordinators,
                   externals, invoked, cur, executions, fingerprint_files>>

\* the execution ends: FingerprintingAdapter.run_after_graph_execution
HostAfterGraphExecution ==
    /\ pc = "teardown"
    /\ fingerprint_files' =
          FingerprintingAdapter_run_after_graph_execution(fingerprint_files,
                                                          run_fingerprints, run_id)
    /\ pc' = "idle"
    /\ todo' = << >>
    /\ inputs' = EmptyDict
    /\ overrides' = EmptyDict
    /\ computed' = EmptyDict
    /\ last' = PlainStep("after_graph")
    /\ UNCHANGED <<memory_store, api_call, metadata_store, result_store, files, tags, verA,
                   resume_from, always_recompute, fingerprints, code_versions,
                   data_savers, run_id, result, runs, coordinators, externals, invoked,
                   cur, executions, run_fingerprints>>

\* driver.execute(inputs=ins, overrides=ovs) on a driver whose adapter is
\* SmartCacheAdapter(metadata_store=InMemoryMetadataStore()): the call of
\* run_before_graph_execution.  The statements after the first are reached
\* only when initialize() returns.
InMemoryBeforeGraphExecution(ins, ovs) ==
    LET raised == initialize_metadata_store("InMemoryMetadataStore")
    IN  /\ pc = "idle"
        /\ runs < MaxRuns
        /\ raised # "none"
        /\ runs' = runs + 1
        /\ api_call' = [NoCall EXCEPT !.op = "run_before_graph_execution",
                                      !.raised = raised]
        /\ last' = Step("before_graph", "none", "none", "none", raised, 0, NoValue,
                        NoFingerprint, FALSE)
        /\ UNCHANGED <<memory_store, metadata_store, result_store, files, tags, verA,
                       resume_from, always_recompute, fingerprints, code_versions,
                       data_savers, run_id, pc, todo, inputs, overrides, computed,
                       result, coordinators, externals, invoked, cur, executions,
                       run_fingerprints, fingerprint_files>>

HostInit ==
    /\ Init
    /\ tags = NoTags
    /\ resume_from = "None"

HostNext ==
    \/ \E ins \in InputDicts, ovs \in OverrideDicts : HostBeforeGraphExecution(ins, ovs)
    \/ HostNodeExecution
    \/ HostAfterGraphExecution
    \/ \E ins \in InputDicts, ovs \in OverrideDicts : InMemoryBeforeGraphExecution(ins, ovs)

HostSpec == HostInit /\ [][HostNext]_vars

\* ------------------------------------------------------------- the properties
\* result_store.get(key) can return a value: the key is in the shelve and,
\* for a loader entry, its file exists
Readable(key) ==
    /\ key \in DOMAIN result_store.cache
    /\ (result_store.cache[key].kind = "loader" => key \in DOMAIN files)

\* the value held for a readable key
StoredValue(key) ==
    IF result_store.cache[key].kind = "loader"
    THEN files[key]
    ELSE result_store.cache[key].value

\* a fingerprint for node n is available to run_to_execute_node
Available(n) ==
    \/ n \in DOMAIN fingerprints
    \/ ContextKeyOf(n) \in DOMAIN metadata_store.rows

AvailableData(n) ==
    IF n \in DOMAIN fingerprints
    THEN fingerprints[n].data
    ELSE metadata_store.rows[ContextKeyOf(n)].data_version

\* the engine is about to call run_to_execute_node for node n
AtToExecute(n) == pc = "execute" /\ n = Head(todo) /\ DepsKnown(fingerprints, n)

\* the step is the engine's call of run_after_node_execution for node n
AtAfterNode(n) ==
    /\ pc = "after"
    /\ pc' # "after"
    /\ n = Head(todo)
    /\ DepsKnown(fingerprints, n)

\* C1: run_to_execute_node, hit: when a fingerprint for the node is available
\* (in memory, or in the metadata store under the node's context key) and the
\* result store can return the value of its data key, the hook returns that
\* stored value, raises nothing and does not invoke the node callable.
C1_HitReturnsStoredValue ==
    [][\A n \in Nodes :
          (AtToExecute(n) /\ Available(n) /\ Readable(AvailableData(n)))
          => /\ result' = StoredValue(AvailableData(n))
             /\ invoked' = invoked
             /\ last'.called = 0
             /\ last'.raised = "none"
             /\ pc' = "after"]_vars

\* a hit served from a side-channel file, the callable not invoked
C1_Witness ==
    /\ last.hook = "to_execute"
    /\ last.log = "cache hit"
    /\ last.called = 0
    /\ result_store.cache[last.fingerprint.data].kind = "loader"
    /\ result = files[last.fingerprint.data]

\* C2: run_to_execute_node, miss: with no in-memory fingerprint and no
\* metadata entry for the context key, the callable is invoked exactly once
\* with node_kwargs and what it does is what the hook does (its value is
\* returned); the metadata store counts one miss and no hit, and the result
\* store's hits stay as they were.
C2_MissInvokesCallable ==
    [][\A n \in Nodes :
          (AtToExecute(n) /\ ~Available(n))
          => LET call == Callable(n, verA, NodeKwargs(n))
             IN  /\ invoked' = [invoked EXCEPT ![n] = @ + 1]
                 /\ last'.called = 1
                 /\ result' = call.value
                 /\ last'.raised = call.raised
                 /\ metadata_store'.misses = metadata_store.misses + 1
                 /\ metadata_store'.hits = metadata_store.hits
                 /\ result_store'.hits = result_store.hits]_vars

\* a miss whose callable returned a value
C2_Witness ==
    /\ last.hook = "to_execute"
    /\ last.log = "cache miss"
    /\ last.raised = "none"
    /\ last.called = 1
    /\ result = <<"int", 5>>
    /\ metadata_store.misses > 0

\* C4: no write on hit: when the metadata store already maps the node's
\* context key, run_after_node_execution leaves the result store's contents
\* (and so its size) and the side-channel files unchanged, and the metadata
\* store's size unchanged.
C4_NoWriteOnHit ==
    [][\A n \in Nodes :
          (AtAfterNode(n) /\ ContextKeyOf(n) \in DOMAIN metadata_store.rows)
          => /\ result_store'.cache = result_store.cache
             /\ files' = files
             /\ SQLiteMetadataStore_size(metadata_store')
                  = SQLiteMetadataStore_size(metadata_store)]_vars

\* run_after_node_execution found the context key in the metadata store
C4_Witness ==
    /\ last.hook = "after_node"
    /\ last.log = "found"
    /\ last.raised = "none"
    /\ ShelveResultStore_size(result_store) > 0

\* C8: when fingerprints[name] is set in memory as run_to_execute_node is
\* called, the metadata store is not consulted: its hits and misses are
\* unchanged by the call.
C8_MemoryFingerprintSkipsMetadata ==
    [][\A n \in Nodes :
          (AtToExecute(n) /\ n \in DOMAIN fingerprints)
          => /\ metadata_store'.hits = metadata_store.hits
             /\ metadata_store'.misses = metadata_store.misses]_vars

\* run_to_execute_node used a fingerprint that a resumed run had put in memory
C8_Witness ==
    /\ last.hook = "to_execute"
    /\ last.source = "memory"
    /\ last.log = "cache hit"
    /\ resume_from # "None"

\* C9: run_before_graph_execution writes nothing to either store: the result
\* store's contents, the side-channel files and the metadata store's entries,
\* history and nodes are as before the hook; and when it returns, each input
\* has fingerprints[name] with code "<name>__input" and data
\* hash_value(value), each override has fingerprints[name] with code
\* code_versions[name] and data hash_value(value).
C9_BeforeGraphWritesNothing ==
    [][(pc = "idle" /\ pc' # "idle")
       => /\ result_store'.cache = result_store.cache
          /\ files' = files
          /\ metadata_store'.rows = metadata_store.rows
          /\ metadata_store'.history = metadata_store.history
          /\ metadata_store'.nodes = metadata_store.nodes
          /\ (pc' = "execute"
              => /\ \A name \in DOMAIN inputs' :
                      fingerprints'[name] = [node_name |-> name,
                                             code |-> name \o "__input",
                                             data |-> hash_value(inputs'[name])]
                 /\ \A name \in DOMAIN overrides' :
                      fingerprints'[name] = [node_name |-> name,
                                             code |-> code_versions'[name],
                                             data |-> hash_value(overrides'[name])])]_vars

\* run_before_graph_execution returned over stores that hold entries, with an
\* input and an override fingerprinted
C9_Witness ==
    /\ last.hook = "before_graph"
    /\ last.raised = "none"
    /\ DOMAIN overrides = {"A"}
    /\ fingerprints["A"].data = hash_value(overrides["A"])
    /\ fingerprints["external"].code = "external__input"
    /\ DOMAIN metadata_store.rows # {}
    /\ DOMAIN result_store.cache # {}

\* the execution in progress repeats the one before it: that one raised
\* nothing, both ran through the same adapter with the same inputs and
\* overrides, and nothing else has touched the stores since it began
Repeats ==
    /\ pc # "idle"
    /\ Len(executions) > 0
    /\ LET prev == executions[Len(executions)]
       IN  /\ prev.ok
           /\ prev.coordinator = cur.coordinator
           /\ prev.inputs = cur.inputs
           /\ prev.overrides = cur.overrides
           /\ prev.externals0 = externals

\* C5: the same graph run twice with the same inputs through one adapter over
\* initially empty stores: the second execution invokes no node callable and
\* leaves the result store's size unchanged; when it has run it raised
\* nothing, the result store's hits went up by exactly the number of
\* non-input nodes, and its outputs equal the first execution's.
C5_SecondRunServedFromCache ==
    (Repeats /\ cur.overrides = EmptyDict /\ executions[Len(executions)].empty0)
    => /\ \A n \in Nodes : invoked[n] = 0
       /\ Cardinality(DOMAIN result_store.cache) = cur.size0
       /\ cur.ok
       /\ (pc = "teardown"
           => /\ result_store.hits = cur.hits0 + Cardinality(Nodes)
              /\ computed = executions[Len(executions)].outputs)

\* a second run over stores the first one filled, done, both nodes served
C5_Witness ==
    /\ Repeats
    /\ cur.overrides = EmptyDict
    /\ executions[Len(executions)].empty0
    /\ pc = "teardown"
    /\ cur.size0 = 2
    /\ result_store.hits = cur.hits0 + 2
    /\ computed["B"] = <<"int", 5>>

\* the metadata entries of node A
EntriesOfA(md) == {k \in DOMAIN md.rows : md.rows[k].node_name = "A"}

\* B's context key when its dependency A carries the fingerprint of value v
KeyOfBOver(v) ==
    create_context_key(code_versions["B"],
                       <<[node_name |-> "A", code |-> code_versions["A"],
                          data |-> hash_value(v)],
                         fingerprints["external"]>>)

\* C10, as stated: executions of A -> B with override A = v.  When
\* run_after_node_execution has stored B, the metadata store holds B under the
\* context key built from hash_value(v); an execution that repeats one with
\* the identical override invokes no callable, raises nothing and ends with
\* the earlier one's outputs; and no step of such an execution adds a
\* metadata entry for A.
C10_OverridePath ==
    /\ []((Repeats /\ "A" \in DOMAIN cur.overrides)
          => /\ \A n \in Nodes : invoked[n] = 0
             /\ cur.ok
             /\ (pc = "teardown" => computed = executions[Len(executions)].outputs))
    /\ [][("A" \in DOMAIN overrides')
          => /\ EntriesOfA(metadata_store') = EntriesOfA(metadata_store)
             /\ (AtAfterNode("B") /\ last'.raised = "none"
                 => /\ KeyOfBOver(overrides["A"]) \in DOMAIN metadata_store'.rows
                    /\ metadata_store'.rows[KeyOfBOver(overrides["A"])].node_name = "B")]_vars

\* the fingerprint run_to_execute_node finds for node n: the one in memory,
\* else the metadata store's
AvailableCode(n) ==
    IF n \in DOMAIN fingerprints THEN fingerprints[n].code ELSE code_versions[n]

\* the metadata entries left by DELETE ... WHERE code_version = code
RowsWithout(code) ==
    {k \in DOMAIN metadata_store.rows : metadata_store.rows[k].code_version # code}

\* a fingerprint for n is found and the result store cannot return its value
FoundUnreadable(n) == AtToExecute(n) /\ Available(n) /\ ~Readable(AvailableData(n))

\* C6, as stated: when a fingerprint is found but result_store.get fails, the
\* hook deletes the metadata of the fingerprint's code version, invokes the
\* callable exactly once, returns its result and surfaces no exception; the
\* metadata store counts one hit and no miss and the result store's hits
\* stay as they were.
C6_Original ==
    [][\A n \in Nodes :
          FoundUnreadable(n)
          => /\ DOMAIN metadata_store'.rows = RowsWithout(AvailableCode(n))
             /\ invoked' = [invoked EXCEPT ![n] = @ + 1]
             /\ result' = Callable(n, verA, NodeKwargs(n)).value
             /\ last'.raised = "none"
             /\ metadata_store'.hits = metadata_store.hits + 1
             /\ metadata_store'.misses = metadata_store.misses
             /\ result_store'.hits = result_store.hits]_vars

\* C6, amended: when a fingerprint is found but result_store.get fails, the
\* hook deletes the metadata of the fingerprint's code version, invokes the
\* callable exactly once and does what the callable does: returns its result
\* or lets its exception through, and raises nothing of its own.  The
\* metadata store counts one hit when it supplied the fingerprint and none
\* when the fingerprint was in memory, no miss either way, and the result
\* store's hits stay as they were.
C6_DesyncRecomputes ==
    [][\A n \in Nodes :
          FoundUnreadable(n)
          => LET call == Callable(n, verA, NodeKwargs(n))
             IN  /\ DOMAIN metadata_store'.rows = RowsWithout(AvailableCode(n))
                 /\ invoked' = [invoked EXCEPT ![n] = @ + 1]
                 /\ result' = call.value
                 /\ last'.raised = call.raised
                 /\ metadata_store'.hits
                      = metadata_store.hits + (IF n \in DOMAIN fingerprints THEN 0 ELSE 1)
                 /\ metadata_store'.misses = metadata_store.misses
                 /\ result_store'.hits = result_store.hits]_vars

\* a retrieval error on a fingerprint that a resumed run had put in memory:
\* the callable ran once and the metadata store counted nothing
C6_Witness ==
    /\ last.hook = "to_execute"
    /\ last.log = "cache retrieval error"
    /\ last.source = "memory"
    /\ last.called = 1
    /\ last.raised = "none"
    /\ metadata_store.hits = 0
    /\ metadata_store.misses = 0

\* C3, as stated: run_after_node_execution on a miss: afterwards
\* fingerprints[name] = Fingerprint(name, code_versions[name],
\* hash_value(result)), the result store returns the result for that data
\* key, the metadata store maps the context key to that fingerprint, and
\* from empty stores each store has size 1.
C3_MissWritesBothStores ==
    [][\A n \in Nodes :
          (AtAfterNode(n) /\ ContextKeyOf(n) \notin DOMAIN metadata_store.rows)
          => LET key == ContextKeyOf(n)
                 data == hash_value(result)
             IN  /\ last'.raised = "none"
                 /\ n \in DOMAIN fingerprints'
                 /\ fingerprints'[n] = [node_name |-> n, code |-> code_versions[n],
                                        data |-> data]
                 /\ Readable(data)'
                 /\ StoredValue(data)' = result
                 /\ key \in DOMAIN metadata_store'.rows
                 /\ metadata_store'.rows[key] = [node_name |-> n,
                                                 code_version |-> code_versions[n],
                                                 data_version |-> data]
                 /\ (StoresEmpty
                     => /\ Cardinality(DOMAIN result_store'.cache) = 1
                        /\ Cardinality(DOMAIN metadata_store'.rows) = 1)]_vars

\* C7, as stated: when the metadata store maps a node's context key to a data
\* version the result store lacks, run_to_execute_node removes the stale
\* entry and raises nothing of its own, and run_after_node_execution then
\* raises nothing and leaves the context key mapped to a data version that
\* is a key of the result store.
C7_DesyncRecovery ==
    [][\A n \in Nodes :
          /\ (AtToExecute(n) /\ Desync(n) /\ n \notin DOMAIN fingerprints)
             => /\ last'.raised = Callable(n, verA, NodeKwargs(n)).raised
                /\ ContextKeyOf(n) \notin DOMAIN metadata_store'.rows
          /\ (AtAfterNode(n) /\ n \in cur.desync)
             => /\ last'.raised = "none"
                /\ ContextKeyOf(n) \in DOMAIN metadata_store'.rows
                /\ metadata_store'.rows[ContextKeyOf(n)].data_version
                     \in DOMAIN result_store'.cache]_vars

\* C11, as stated: a graph has been run once, without error, through one
\* adapter; a new adapter with resume_from = "latest" over the same stores
\* has, right after run_before_graph_execution without overrides, the prior
\* run's fingerprint in memory for every node that run executed.
C11_ResumeFromLatest ==
    (/\ last.hook = "before_graph"
     /\ resume_from = "latest"
     /\ Len(executions) = 1
     /\ executions[1].ok
     /\ executions[1].coordinator < cur.coordinator
     /\ externals = 0
     /\ cur.overrides = EmptyDict)
    => /\ last.raised = "none"
       /\ \A n \in Nodes \ DOMAIN executions[1].overrides :
             /\ n \in DOMAIN fingerprints
             /\ fingerprints[n] = executions[1].fingerprints[n]

\* C20, as stated: run_before_graph_execution raises IndexError when
\* resume_from names a run id that no row of the run history carries, and
\* when resume_from is "latest" and the history is empty.
C20_MissingRunIsIndexError ==
    [][(pc = "idle" /\ pc' # "idle")
       => /\ (resume_from = "latest" /\ Len(metadata_store.history) = 0
              => last'.raised = "IndexError")
          /\ (/\ resume_from \notin {"None", "latest"}
              /\ \A i \in 1..Len(metadata_store.history) :
                    metadata_store.history[i].run_id # resume_from)
             => last'.raised = "IndexError"]_vars

\* ------------------------------------------------ the stores' API, one call
\* a step that is one call of `op` on a store
CallOf(op) == externals' = externals + 1 /\ api_call'.op = op

\* C12, as stated: ShelveResultStore.set on a key already present, whatever
\* value it holds (0 and the other falsy values included), is a no-op: the
\* size is unchanged, the entry is unchanged and get(key) still returns the
\* value stored first.
C12_SetFirstWriteWins ==
    [][(CallOf("result_store.set") /\ api_call'.key \in DOMAIN result_store.cache)
       => /\ ShelveResultStore_size(result_store') = ShelveResultStore_size(result_store)
          /\ result_store'.cache = result_store.cache
          /\ files' = files
          /\ ShelveResultStore_get(result_store', files', api_call'.key).value
                = ShelveResultStore_get(result_store, files, api_call'.key).value]_vars

\* C13: ShelveResultStore.get of a key whose entry can be read returns the
\* stored value and adds one to hits; get of an absent key, or of a key whose
\* loader cannot load its file, raises ResultRetrievalError and leaves hits
\* and the store's contents unchanged.
C13_GetHitOrRetrievalError ==
    [][CallOf("result_store.get")
       => LET key == api_call'.key
          IN  /\ result_store'.cache = result_store.cache
              /\ files' = files
              /\ Readable(key)
                    => /\ api_call'.raised = "none"
                       /\ api_call'.value = StoredValue(key)
                       /\ result_store'.hits = result_store.hits + 1
              /\ ~Readable(key)
                    => /\ api_call'.raised = "ResultRetrievalError"
                       /\ result_store'.hits = result_store.hits]_vars

\* a get has succeeded, and a later get of a key whose file is gone has raised
C13_Witness ==
    /\ api_call.op = "result_store.get"
    /\ api_call.raised = "ResultRetrievalError"
    /\ api_call.key \in DOMAIN result_store.cache
    /\ result_store.cache[api_call.key].kind = "loader"
    /\ api_call.key \notin DOMAIN files
    /\ result_store.hits = 1

\* C14, as stated: ShelveResultStore.delete(key) of a present key removes the
\* entry (the size drops by one and a later get(key) raises
\* ResultRetrievalError); delete of an absent key is an error and leaves the
\* contents unchanged.
C14_DeleteRemovesEntry ==
    [][CallOf("result_store.delete")
       => LET key == api_call'.key
          IN  /\ key \in DOMAIN result_store.cache
                    => /\ api_call'.raised = "none"
                       /\ key \notin DOMAIN result_store'.cache
                       /\ ShelveResultStore_size(result_store')
                             = ShelveResultStore_size(result_store) - 1
                       /\ ShelveResultStore_get(result_store', files', key).raised
                             = "ResultRetrievalError"
              /\ key \notin DOMAIN result_store.cache
                    => /\ api_call'.raised # "none"
                       /\ result_store'.cache = result_store.cache]_vars

\* the SQLite store maps context_key to a fingerprint with the data of `to`
SameInSQLite(to, context_key) ==
    /\ context_key \in DOMAIN metadata_store.rows
    /\ metadata_store.rows[context_key].data_version = to.data

\* the in-memory store maps (to.code, context_key) to the data of `to`
SameInMemory(to, context_key) ==
    /\ to.code \in DOMAIN memory_store.state
    /\ context_key \in DOMAIN memory_store.state[to.code]
    /\ memory_store.state[to.code][context_key] = to.data

\* C15, as stated: a set repeated for a context key that already maps to a
\* fingerprint with the same data is a no-op: the size is unchanged and the
\* persisted records (the metadata entries and, for SQLite, the node and
\* history rows) are the same as before.
C15_Original ==
    [][/\ (CallOf("metadata_store.set") /\ SameInSQLite(api_call'.to, api_call'.context_key))
            => /\ SQLiteMetadataStore_size(metadata_store')
                     = SQLiteMetadataStore_size(metadata_store)
               /\ metadata_store'.rows = metadata_store.rows
               /\ metadata_store'.nodes = metadata_store.nodes
               /\ metadata_store'.history = metadata_store.history
       /\ (CallOf("memory_store.set") /\ SameInMemory(api_call'.to, api_call'.context_key))
            => /\ api_call'.raised = "none"
               /\ memory_store' = memory_store]_vars

\* C15, amended: such a repeated set leaves the size, the metadata entries
\* and, for SQLite, the node rows as they were; the SQLite store appends one
\* history row for the call, as for every metadata write, and the in-memory
\* store is left wholly unchanged.
C15_RepeatedSetKeepsEntries ==
    [][/\ (CallOf("metadata_store.set") /\ SameInSQLite(api_call'.to, api_call'.context_key))
            => /\ SQLiteMetadataStore_size(metadata_store')
                     = SQLiteMetadataStore_size(metadata_store)
               /\ metadata_store'.rows = metadata_store.rows
               /\ metadata_store'.nodes = metadata_store.nodes
               /\ Len(metadata_store'.history) = Len(metadata_store.history) + 1
               /\ SubSeq(metadata_store'.history, 1, Len(metadata_store.history))
                     = metadata_store.history
               /\ metadata_store'.history[Len(metadata_store'.history)].context_key
                     = api_call'.context_key
       /\ (CallOf("memory_store.set") /\ SameInMemory(api_call'.to, api_call'.context_key))
            => /\ api_call'.raised = "none"
               /\ memory_store' = memory_store]_vars

\* the two calls made so far are sets of the same fingerprint for one context
\* key in the SQLite store
C15_Witness ==
    /\ externals = 2
    /\ api_call.op = "metadata_store.set"
    /\ api_call.raised = "none"
    /\ SameInSQLite(api_call.to, api_call.context_key)
    /\ Len(metadata_store.history) = 2
    /\ metadata_store.history[1].context_key = api_call.context_key
    /\ metadata_store.history[2].context_key = api_call.context_key
    /\ SQLiteMetadataStore_size(metadata_store) = 1

\* C16 (I3): in both implementations a context key maps to exactly one
\* data_version, and no call but delete changes or removes a mapping: a later
\* set with different data leaves it as it was.
C16_OneValuePerContext ==
    /\ [](\A c1 \in DOMAIN memory_store.state : \A c2 \in DOMAIN memory_store.state :
            c1 # c2 => DOMAIN memory_store.state[c1] \cap DOMAIN memory_store.state[c2] = {})
    /\ [][/\ api_call'.op # "metadata_store.delete"
              => \A k \in DOMAIN metadata_store.rows :
                    /\ k \in DOMAIN metadata_store'.rows
                    /\ metadata_store'.rows[k].data_version
                          = metadata_store.rows[k].data_version
          /\ api_call'.op # "memory_store.delete"
              => \A c \in DOMAIN memory_store.state :
                    /\ c \in DOMAIN memory_store'.state
                    /\ \A k \in DOMAIN memory_store.state[c] :
                          /\ k \in DOMAIN memory_store'.state[c]
                          /\ memory_store'.state[c][k] = memory_store.state[c][k]]_vars

\* the SQLite store has just been given, for a mapped context key, a
\* fingerprint with other data than the mapping holds
C16_Witness ==
    /\ api_call.op = "metadata_store.set"
    /\ api_call.raised = "none"
    /\ api_call.context_key \in DOMAIN metadata_store.rows
    /\ metadata_store.rows[api_call.context_key].data_version # api_call.to.data
    /\ metadata_store.rows[api_call.context_key].code_version = api_call.to.code

\* the in-memory store maps (to.code, context_key) to other data than `to`
DifferentInMemory(to, context_key) ==
    /\ to.code \in DOMAIN memory_store.state
    /\ context_key \in DOMAIN memory_store.state[to.code]
    /\ memory_store.state[to.code][context_key] # to.data

\* C17: InMemoryMetadataStore.set for a (code, context_key) already mapped
\* to different data raises MetadataStoreIndexingError and leaves the stored
\* data_version unchanged; no other set raises.
C17_NonIdempotentSetRaises ==
    [][CallOf("memory_store.set")
       => /\ DifferentInMemory(api_call'.to, api_call'.context_key)
               => /\ api_call'.raised = "MetadataStoreIndexingError"
                  /\ memory_store'.state = memory_store.state
          /\ ~DifferentInMemory(api_call'.to, api_call'.context_key)
               => api_call'.raised = "none"]_vars

\* a set of the in-memory store has raised, and the mapping holds the data
\* set first
C17_Witness ==
    /\ api_call.op = "memory_store.set"
    /\ api_call.raised = "MetadataStoreIndexingError"
    /\ memory_store.state[api_call.to.code][api_call.context_key] # api_call.to.data

\* the SQLite store maps context_key to other data than `to`
DifferentInSQLite(to, context_key) ==
    /\ context_key \in DOMAIN metadata_store.rows
    /\ metadata_store.rows[context_key].data_version # to.data

\* the in-memory store maps (code, context_key)
MappedInMemory(code, context_key) ==
    /\ code \in DOMAIN memory_store.state
    /\ context_key \in DOMAIN memory_store.state[code]

\* each get adds one to exactly one of hits and misses, changes no stored
\* record, returns the mapped data for a mapped key and None for an unmapped
\* one
GetIsLookup ==
    /\ CallOf("metadata_store.get")
         => LET k == api_call'.context_key
            IN  /\ metadata_store'.rows = metadata_store.rows
                /\ metadata_store'.history = metadata_store.history
                /\ metadata_store'.nodes = metadata_store.nodes
                /\ k \in DOMAIN metadata_store.rows
                      => /\ api_call'.found
                         /\ api_call'.fingerprint
                               = Fingerprint(metadata_store.rows[k].node_name,
                                             api_call'.to.code,
                                             metadata_store.rows[k].data_version)
                         /\ metadata_store'.hits = metadata_store.hits + 1
                         /\ metadata_store'.misses = metadata_store.misses
                /\ k \notin DOMAIN metadata_store.rows
                      => /\ ~api_call'.found
                         /\ metadata_store'.hits = metadata_store.hits
                         /\ metadata_store'.misses = metadata_store.misses + 1
    /\ CallOf("memory_store.get")
         => LET k == api_call'.context_key
                c == api_call'.to.code
            IN  /\ memory_store'.state = memory_store.state
                /\ MappedInMemory(c, k)
                      => /\ api_call'.found
                         /\ api_call'.fingerprint
                               = Fingerprint(memory_store.code_to_name[c], c,
                                             memory_store.state[c][k])
                         /\ memory_store'.hits = memory_store.hits + 1
                         /\ memory_store'.misses = memory_store.misses
                /\ ~MappedInMemory(c, k)
                      => /\ ~api_call'.found
                         /\ memory_store'.hits = memory_store.hits
                         /\ memory_store'.misses = memory_store.misses + 1

\* C18, as stated: in both implementations, after set(to, context_key) a
\* get(to.code, context_key) returns a Fingerprint equal to `to`; get of a
\* key never set returns None; each get increments exactly one of hits and
\* misses and changes no stored mapping.
C18_Original ==
    [][/\ GetIsLookup
       /\ (CallOf("metadata_store.set") /\ api_call'.raised = "none")
            => LET out == SQLiteMetadataStore_get(metadata_store', api_call'.to.code,
                                                  api_call'.context_key)
               IN  out.found /\ out.fingerprint = api_call'.to
       /\ (CallOf("memory_store.set") /\ api_call'.raised = "none")
            => LET out == InMemoryMetadataStore_get(memory_store', api_call'.to.code,
                                                    api_call'.context_key)
               IN  out.found /\ out.fingerprint = api_call'.to]_vars

\* C18, amended: get is a pure lookup in both implementations.  After
\* set(to, context_key) on a context key that was unmapped or mapped to the
\* same data, get(to.code, context_key) returns a Fingerprint equal to `to`;
\* when the key was mapped to different data the SQLite set keeps the first
\* value and get returns that first fingerprint.  get of an unmapped key
\* returns None, and each get increments exactly one of hits and misses and
\* changes no stored mapping.
C18_GetIsPureLookup ==
    [][/\ GetIsLookup
       /\ (CallOf("metadata_store.set") /\ api_call'.raised = "none")
            => LET to == api_call'.to
                   k == api_call'.context_key
                   out == SQLiteMetadataStore_get(metadata_store', to.code, k)
               IN  /\ out.found
                   /\ ~DifferentInSQLite(to, k) => out.fingerprint = to
                   /\ DifferentInSQLite(to, k)
                         => out.fingerprint
                              = Fingerprint(metadata_store.rows[k].node_name, to.code,
                                            metadata_store.rows[k].data_version)
       /\ (CallOf("memory_store.set") /\ api_call'.raised = "none")
            => LET out == InMemoryMetadataStore_get(memory_store', api_call'.to.code,
                                                    api_call'.context_key)
               IN  out.found /\ out.fingerprint = api_call'.to]_vars

\* a get has missed, a set has followed, and a get of the key set has just
\* returned the fingerprint given to that set
C18_Witness ==
    /\ externals = 3
    /\ api_call.op = "metadata_store.get"
    /\ api_call.found
    /\ metadata_store.hits = 1
    /\ metadata_store.misses = 1
    /\ Len(metadata_store.history) = 1
    /\ api_call.fingerprint.data = metadata_store.rows[api_call.context_key].data_version

\* C19, as stated: in both implementations delete(fingerprint) removes every
\* entry whose code_version is fingerprint.code, whatever its data_version or
\* context key, and no entry of another code version.
C19_DeleteByCodeVersion ==
    [][/\ CallOf("metadata_store.delete")
            => \A k \in DOMAIN metadata_store.rows :
                  IF metadata_store.rows[k].code_version = api_call'.to.code
                  THEN k \notin DOMAIN metadata_store'.rows
                  ELSE /\ k \in DOMAIN metadata_store'.rows
                       /\ metadata_store'.rows[k] = metadata_store.rows[k]
       /\ CallOf("memory_store.delete")
            => \A c \in DOMAIN memory_store.state :
                  IF c = api_call'.to.code
                  THEN ~\E k \in DOMAIN memory_store.state[c] :
                          MappedInMemory(c, k)'
                  ELSE /\ c \in DOMAIN memory_store'.state
                       /\ memory_store'.state[c] = memory_store.state[c]]_vars

\* ------------------------------------------------ fingerprinting.py, one call
\* C21, as stated: for every {str -> str} mapping m of space-free strings,
\* of any size, _decode_dict(_encode_dict(m)) = m, and
\* NodeContext.decode(NodeContext(code_version, deps).encode()) gives back
\* the same code_version and the same dependency mapping.
C21_CodecRoundTrip ==
    /\ api_call.op = "_decode_dict"
          => /\ api_call.output.raised = "none"
             /\ api_call.output.d = api_call.input
    /\ api_call.op = "NodeContext.decode"
          => /\ api_call.output.raised = "none"
             /\ api_call.output.code_version = api_call.code_version
             /\ api_call.output.dependencies_fingerprints = api_call.input

\* C22 (C1): create_context_key(code, deps) gives the identical key for the
\* same code version and the same {dep.node_name -> dep.data} mapping, in
\* whatever order the dependency fingerprints are supplied.
C22_CanonicalContextKey ==
    (/\ api_call.op = "create_context_key"
     /\ DepMapping(api_call.input) = DepMapping(api_call.other))
    => api_call.output = api_call.other_output

\* two dependencies of different nodes with different data were supplied in
\* the two orders
C22_Witness ==
    /\ api_call.op = "create_context_key"
    /\ Len(api_call.input) = 2
    /\ api_call.input[1].node_name # api_call.input[2].node_name
    /\ api_call.input[1].data # api_call.input[2].data
    /\ api_call.other = <<api_call.input[2], api_call.input[1]>>
    /\ api_call.output = api_call.other_output

\* C23, as stated: hash_value is total.  For a value of every shape
\* (primitive, sequence, mapping, set, object with a __dict__ at any nesting
\* depth, any other object) it returns a digest and raises no error.
C23_HashValueIsTotal ==
    api_call.op = "hash_value" => api_call.output.raised = "none"

\* C24, as stated: for any mapping m, hash_value(m) equals hash_value of a
\* mapping with the same entries inserted in any other order.
C24_MappingOrderInvariance ==
    api_call.op = "hash_value(shuffled)"
        => /\ Entries(api_call.input) = Entries(api_call.other)
           /\ api_call.output = api_call.other_output

\* ------------------------------------------------------ the adapter, again
\* C25, as stated: a node marked always_recompute is never served from the
\* cache: run_to_execute_node invokes its callable on every execution, even
\* when the stores hold a cached value for its context key, and its result is
\* still fingerprinted by run_after_node_execution.
C25_AlwaysRecomputeInvokes ==
    [][\A n \in Nodes :
          /\ (AtToExecute(n) /\ n \in always_recompute)
                => /\ last'.called = 1
                   /\ invoked' = [invoked EXCEPT ![n] = @ + 1]
          /\ (AtAfterNode(n) /\ n \in always_recompute /\ last'.raised = "none")
                => n \in DOMAIN fingerprints']_vars

\* C26: when the node callable raises inside run_to_execute_node, on the miss
\* path or on the desync-recovery path, that same exception leaves the hook:
\* it is not replaced by a cache error and not swallowed.
C26_CallableExceptionPropagates ==
    [][\A n \in Nodes :
          (/\ AtToExecute(n)
           /\ Available(n) => ~Readable(AvailableData(n))
           /\ Callable(n, verA, NodeKwargs(n)).raised # "none")
          => /\ last'.called = 1
             /\ last'.raised = Callable(n, verA, NodeKwargs(n)).raised
             /\ last'.raised \notin {"none", "ResultRetrievalError", "MaterializationError",
                                     "MetadataStoreIndexingError"}
             /\ pc' = "teardown"
             /\ ~cur'.ok]_vars

\* the callable has raised on the desync-recovery path, and the hook with it
C26_Witness ==
    /\ last.hook = "to_execute"
    /\ last.log = "cache retrieval error"
    /\ last.called = 1
    /\ last.raised = "TypeError"

\* the side-channel saver is reached by set(key, value, saver_kwargs) and
\* fails
SaverFails(key, value, saver_kwargs) ==
    /\ ~EntryTruthy(result_store.cache, key)
    /\ "cache" \in saver_kwargs
    /\ ~SaverSupports(value)

\* C27, as stated: when the side-channel saver fails during
\* ShelveResultStore.set(key, value, saver_kwargs), set raises
\* MaterializationError and records no entry for key: the size is unchanged
\* and a later get(key) fails with ResultRetrievalError.
C27_SaverFailureRecordsNothing ==
    [][(/\ CallOf("result_store.set")
        /\ SaverFails(api_call'.key, api_call'.value, api_call'.saver_kwargs))
       => /\ api_call'.raised = "MaterializationError"
          /\ ShelveResultStore_size(result_store') = ShelveResultStore_size(result_store)
          /\ ShelveResultStore_get(result_store', files', api_call'.key).raised
                = "ResultRetrievalError"]_vars

\* C28, as stated: every run-history entry written by
\* run_after_node_execution during a graph execution carries the run_id the
\* engine passed to that execution's run_before_graph_execution.
C28_HistoryCarriesRunId ==
    [][\A n \in Nodes :
          AtAfterNode(n)
          => \A i \in (Len(metadata_store.history) + 1)..Len(metadata_store'.history) :
                metadata_store'.history[i].run_id = run_id]_vars

\* C29, as stated: after the adapter's run_after_graph_execution the stores
\* are closed: the result store opened during the execution has is_open =
\* False once the teardown has run.
C29_TeardownClosesStores ==
    [][(pc = "teardown" /\ pc' = "idle") => ~result_store'.is_open]_vars

\* What a completed SQLiteMetadataStore.set adds to the committed tables: its
\* history row, its node row and its metadata row.
SetRows(c, to, context_key, run) ==
    Tables(InsertOrIgnore(c.rows, context_key, to),
           add_to_history(c.history, context_key, run),
           c.nodes \cup {to.code})

\* C30: SQLiteMetadataStore.set is atomic: the database file changes only by
\* the commit of a call, and the commit of a set adds to the file the history
\* row, the node row and the metadata row of that call and nothing else; no
\* committed state holds only some of the rows of one call to set, one that
\* was interrupted in the middle included.
C30_SetIsAtomic ==
    [][\/ metadata_store'.committed = metadata_store.committed
       \/ /\ CallOf("metadata_store.set")
          /\ api_call'.raised = "none"
          /\ metadata_store'.committed =
                SetRows(metadata_store.committed, api_call'.to, api_call'.context_key, "...")
       \/ /\ CallOf("metadata_store.delete")
          /\ metadata_store'.committed.history = metadata_store.committed.history
          /\ metadata_store'.committed.nodes = metadata_store.committed.nodes]_vars

\* C31: every SQLiteMetadataStore.set call appends exactly one run-history
\* entry (context_key, run_id), whose id is strictly greater than the id of
\* every earlier entry; get and delete append no history entry and remove
\* none.
C31_HistoryAppendOnly ==
    [][LET h == metadata_store.history
           h2 == metadata_store'.history
       IN  /\ CallOf("metadata_store.set")
                => /\ Len(h2) = Len(h) + 1
                   /\ SubSeq(h2, 1, Len(h)) = h
                   /\ h2[Len(h2)].context_key = api_call'.context_key
                   /\ h2[Len(h2)].run_id = "..."
                   /\ \A i \in 1..Len(h) : h[i].id < h2[Len(h2)].id
           /\ (CallOf("metadata_store.get") \/ CallOf("metadata_store.delete"))
                => h2 = h]_vars

\* three sets were made and the last call was a set: the history holds three
\* entries in id order
C31_Witness ==
    /\ api_call.op = "metadata_store.set"
    /\ Len(metadata_store.history) = 3
    /\ metadata_store.history[1].id < metadata_store.history[2].id
    /\ metadata_store.history[2].id < metadata_store.history[3].id
    /\ metadata_store.history[3].context_key = api_call.context_key

\* C32: after run_after_node_execution completes for a node, on a hit as
\* well as on a miss, fingerprints[name] is populated and equals the
\* fingerprint the metadata store maps the node's current context key to.
C32_FingerprintMatchesMetadata ==
    [][\A n \in Nodes :
          (AtAfterNode(n) /\ last'.raised = "none")
          => LET code_version == code_versions'[n]
                 context_key == create_context_key(code_version,
                                                   Dependencies(fingerprints', n))
                 mapped == SQLiteMetadataStore_get(metadata_store', code_version,
                                                   context_key)
             IN  /\ n \in DOMAIN fingerprints'
                 /\ mapped.found
                 /\ mapped.fingerprint = fingerprints'[n]]_vars

\* run_after_node_execution has completed for B on a hit, in an execution
\* that follows one in which it completed on a miss
C32_Witness ==
    /\ last.hook = "after_node"
    /\ last.node = "B"
    /\ last.log = "found"
    /\ last.raised = "none"
    /\ "B" \in DOMAIN fingerprints
    /\ fingerprints["B"].data = metadata_store.rows[ContextKeyOf("B")].data_version
    /\ Len(executions) > 0

\* C33: after run_before_graph_execution with resume_from unset, the
\* in-memory fingerprints map holds exactly the names given as inputs and
\* overrides of that execution, each with the fingerprint of the value given;
\* no fingerprint left from an earlier execution by the same adapter remains.
C33_FingerprintsResetPerRun ==
    [][(last'.hook = "before_graph" /\ runs' = runs + 1 /\ resume_from = "None")
          => /\ last'.raised = "none"
             /\ DOMAIN fingerprints' = DOMAIN inputs' \cup DOMAIN overrides'
             /\ \A n \in DOMAIN fingerprints' :
                   fingerprints'[n].data = hash_value(Update(inputs', overrides')[n])]_vars

\* run_before_graph_execution has just run, with resume_from unset, on an
\* adapter whose previous execution ended with fingerprints for A and B
C33_Witness ==
    /\ last.hook = "before_graph"
    /\ resume_from = "None"
    /\ Len(executions) > 0
    /\ executions[Len(executions)].coordinator = cur.coordinator
    /\ {"A", "B"} \subseteq DOMAIN executions[Len(executions)].fingerprints
    /\ DOMAIN fingerprints = {"external"}

\* C34 (I4 under adapter-only mutation): starting from empty stores, in every
\* state reached between hook calls by run_before_graph_execution,
\* run_to_execute_node and run_after_node_execution alone (no external call
\* has touched the stores), every data_version held in the metadata store is
\* a key of the result store.
C34_MetadataRefersToResults ==
    externals = 0
        => \A k \in DOMAIN metadata_store.rows :
              metadata_store.rows[k].data_version \in DOMAIN result_store.cache

\* no external call was made, run_after_node_execution has just raised from
\* the result store's set, and the metadata store holds rows of two nodes
C34_Witness ==
    /\ externals = 0
    /\ last.hook = "after_node"
    /\ last.raised = "MaterializationError"
    /\ \E k1 \in DOMAIN metadata_store.rows : \E k2 \in DOMAIN metadata_store.rows :
          metadata_store.rows[k1].node_name # metadata_store.rows[k2].node_name

\* the (code version, context key) entries the in-memory store holds
MemoryEntries(ms) ==
    UNION {{<<c, k>> : k \in DOMAIN ms.state[c]} : c \in DOMAIN ms.state}

\* C35: for both metadata store implementations, after any sequence of set
\* and delete operations size equals the number of context-key entries
\* stored and empty holds exactly when there are none: size is 2 after two
\* context keys of one code version were stored, and the store is empty
\* again after a set followed by the delete of that fingerprint.
C35_SizeCountsEntries ==
    /\ SQLiteMetadataStore_size(metadata_store) = Cardinality(DOMAIN metadata_store.rows)
    /\ SQLiteMetadataStore_empty(metadata_store) <=> DOMAIN metadata_store.rows = {}
    /\ InMemoryMetadataStore_size(memory_store) = Cardinality(MemoryEntries(memory_store))
    /\ InMemoryMetadataStore_empty(memory_store) <=> MemoryEntries(memory_store) = {}

\* the values whose hash_value is the digest data
ValuesHashingTo(data) == {v \in {<<"int", data[2]>>, <<"str", data[2]>>} : hash_value(v) = data}

\* the keyword arguments for node n whose data fingerprints are those the
\* adapter holds for n's dependencies
KwargsMatching(n) ==
    LET deps == DOMAIN NodeKwargs(n)
    IN  {kw \in [deps -> UNION {ValuesHashingTo(fingerprints[d].data) : d \in deps}] :
            \A d \in deps : hash_value(kw[d]) = fingerprints[d].data}

\* C36, cache soundness: whenever run_to_execute_node returns a value without
\* invoking the callable, for a node that is neither an input nor an override
\* of the execution and with resume_from set or unset, that value is what the
\* node's current code version gives when applied to dependencies whose data
\* fingerprints are the node's current dependency fingerprints.
C36_CacheSoundness ==
    [][\A n \in Nodes :
          (/\ AtToExecute(n)
           /\ last'.hook = "to_execute"
           /\ last'.raised = "none"
           /\ last'.called = 0)
          => \E kw \in KwargsMatching(n) :
                /\ Callable(n, verA, kw).raised = "none"
                /\ Callable(n, verA, kw).value = result']_vars

\* run_to_execute_node has just failed to read the data key of node n because
\* the file of its side-channel entry is gone, and has recomputed the node
FileLost(n) ==
    /\ last.hook = "to_execute"
    /\ last.node = n
    /\ last.log = "cache retrieval error"
    /\ last.raised = "none"
    /\ last.fingerprint.data \in DOMAIN result_store.cache
    /\ result_store.cache[last.fingerprint.data].kind = "loader"
    /\ last.fingerprint.data \notin DOMAIN files

\* C37, desync repair for side-channel entries: when result_store.get failed
\* because the file referenced by an existing side-channel entry could not be
\* loaded, then after run_to_execute_node has recomputed the node and
\* run_after_node_execution has run, result_store.get on
\* fingerprints[name].data succeeds, so that the next execution of the node
\* is a cache hit and not another desync.
C37_SideChannelRepair ==
    [][\A n \in Nodes :
          (AtAfterNode(n) /\ FileLost(n))
          => /\ last'.raised = "none"
             /\ n \in DOMAIN fingerprints'
             /\ fingerprints'[n].data \in DOMAIN result_store'.cache
             /\ (result_store'.cache[fingerprints'[n].data].kind = "loader"
                    => fingerprints'[n].data \in DOMAIN files')]_vars

\* C38: ShelveResultStore.set leaves the caller's saver_kwargs mapping (the
\* node's tags) unchanged, so that every run_after_node_execution that stores
\* a new result of a cache-tagged node, the first and each later one, across
\* results with different fingerprints and across executions, persists the
\* value through the side-channel: a loader entry and a file holding it.
C38_SaverKwargsUnchanged ==
    [][\A n \in Nodes :
          AtAfterNode(n)
          => /\ tags'[n] = tags[n]
             /\ (/\ n \in data_savers
                 /\ ContextKeyOf(n) \notin DOMAIN metadata_store.rows
                 /\ hash_value(result) \notin DOMAIN result_store.cache)
                => /\ last'.raised = "none"
                   /\ result_store'.cache[hash_value(result)].kind = "loader"
                   /\ hash_value(result) \in DOMAIN files'
                   /\ files'[hash_value(result)] = result]_vars

\* C39: FingerprintingAdapter reports per-run fingerprints: the map it holds
\* and dumps at run_after_graph_execution contains, for each node executed in
\* that graph execution that is not an input or an override of it, the
\* fingerprint of the result produced in that same execution, and no
\* fingerprint carried over from an earlier execution by the same adapter.
C39_PerRunFingerprints ==
    [][(pc = "teardown" /\ pc' = "idle")
          => LET dumped == fingerprint_files'[run_id]
             IN  /\ \A n \in Nodes :
                       (n \in DOMAIN computed /\ n \notin DOMAIN overrides)
                          => /\ n \in DOMAIN dumped
                             /\ dumped[n] = hash_value(computed[n])
                 /\ \A n \in DOMAIN dumped :
                       /\ n \in DOMAIN computed
                       /\ dumped[n] = hash_value(computed[n])]_vars

\* C40: the adapter runs with either metadata store implementation: with an
\* InMemoryMetadataStore as metadata_store and resume_from unset,
\* run_before_graph_execution and the hooks after it complete without error,
\* every store operation the adapter invokes being provided by both classes.
C40_EitherMetadataStore ==
    [][(runs' = runs + 1 /\ api_call'.op = "run_before_graph_execution")
          => api_call'.raised = "none"]_vars

================================================================
